---------------------------- MODULE Spec2Model ----------------------------
(***************************************************************************)
(* A model of the data-recorder backend (data-processor crate).            *)
(*                                                                         *)
(*   Part I   the frame codec: ProtocolParser of device_communication.rs   *)
(*            (crc16, build_frame, find_frame_start, try_parse_one,        *)
(*            parse_frames, feed_data), driven by a device that writes     *)
(*            byte segments to the transport and a session that reads them *)
(*            in chunks of any size.                                       *)
(*   Part II  the sample decoder and burst accumulator: DataProcessor of   *)
(*            data_processing.rs.                                          *)
(*                                                                         *)
(* Bytes are the integers 0..255, u16 values the integers 0..65535.        *)
(* Buffers are sequences; the source's indices are 0-based and the model   *)
(* keeps them (At, Slice and Advance translate to TLA+'s 1-based ones).    *)
(***************************************************************************)
EXTENDS Integers, Sequences, FiniteSets, TLC

VARIABLES
    \* ---- Part I: ProtocolParser and its transport
    buf,        \* ProtocolParser.buf
    wire,       \* bytes written to the transport and not yet read
    out,        \* the frames returned by the last feed_data call
    log,        \* the try_parse_one attempts of the last feed_data call
    panicked,   \* an index outside the buffer was read (a Rust panic)
    sent,       \* history: the segments written to the transport, in order
    nfed,       \* history: number of bytes fed to the parser so far
    ncalls,     \* history: number of feed_data calls so far: 0, 1, or 2 for two or more
    nframes,    \* history: number of frames returned so far, over all calls
    lenBefore,  \* history: buf.len() of the last call once the data was appended
    \* ---- Part II: DataProcessor
    packet_sequence,
    trigger_burst_sequence,
    current_trigger_timestamp,
    current_trigger_burst,
    completed_trigger_bursts,
    now,        \* the wall clock, chrono::Utc::now().timestamp_millis()
    result,     \* what the last process_packet call returned
    lastPacket, \* history: the packet of the last process_packet call
    nAccepted,  \* history: number of packets process_packet has accepted
    nCalls,     \* history: number of process_packet calls
    nTriggers,  \* history: number of start_trigger_burst calls
    completed_order, \* history: the burst_ids of the cache, in completion order
    lifecycle,  \* history: "open" from a TriggerEvent on, with the Trigger packets
                \* accepted since; "closed" by BufferTransferComplete, "none" by a reset
    \* ---- Part III: the broadcast channels and the WebSocketServer
    processed_ch,      \* broadcast channel of ProcessedData, as its one receiver sees it
    trigger_event_ch,  \* broadcast channel of TriggerEvent
    burst_complete_ch, \* broadcast channel of TriggerBurst
    data_pump,         \* the three topic pumps of WebSocketServer::run
    trigger_pump,
    burst_pump,
    clients,           \* the clients map: client_id -> ClientSubscriptions
    conn,              \* per client id: "none", "open" (writer task running), "closed"
    queue,             \* per client id: the frames in its mpsc channel
    ws_sent,           \* per client id: the frames its writer task sent on the socket
    reader,            \* per client id: "none", "running", "ended": its reader task
    client_count,      \* the client-count watch
    handled,           \* history, per client id: the client messages handled
    published,         \* history: the bursts the router completed and published
    fanned,            \* history: the calls of broadcast_trigger_burst_complete
    \* -- the device session (DeviceManager), its supervisor and the control surface
    connection,        \* "none" or "open": DeviceManager::connection
    status,            \* DeviceStatus: connected, device_id, firmware_version, mode, stream_active
    self_seq,          \* DeviceManager::seq, the next frame's sequence number, a u8
    trigger_active,    \* the session is in trigger mode
    current_trigger,   \* <<>> or <<the last trigger event seen>>
    command_rx,        \* the commands queued for the session, oldest first
    events,            \* the device events queued for the event router, oldest first
    written,           \* history: the frames written to the device, as bytes
    handled_cmd,       \* <<>> or <<the last command handled and what its write did>>
    session,           \* "running", "backoff" (run returned Err) or "panicked"
    service,           \* "up", or "down" once main has left its select
    current_mode,      \* the control surface's copy of the mode
    in_flight,         \* the requests between their lock section and their enqueue
    response,          \* <<>> or <<the last response of the control surface>>
    nRequests,         \* number of requests made of the control surface
    nReads,            \* number of frames read from the device
    cmd_log,           \* history: how many commands were enqueued and handled, and
                       \* which of them were enqueued while there was no connection
    device_status,     \* the device-connected watch, written by the event router
    event_log          \* history: the types of the events the router has taken

codecVars == <<buf, wire, out, log, panicked, sent, nfed, ncalls, nframes, lenBefore>>
procVars  == <<packet_sequence, trigger_burst_sequence, current_trigger_timestamp,
               current_trigger_burst, completed_trigger_bursts, now, result,
               lastPacket, nAccepted, nCalls, nTriggers, completed_order,
               lifecycle>>
wsVars    == <<processed_ch, trigger_event_ch, burst_complete_ch, data_pump,
               trigger_pump, burst_pump, clients, conn, reader, client_count, queue,
               ws_sent, handled, published, fanned>>
sessionVars == <<connection, status, self_seq, trigger_active, current_trigger,
                 command_rx, events, written, handled_cmd, session, nReads, cmd_log>>
routerVars == <<device_status, event_log>>
devVars   == <<sessionVars, routerVars>>
webVars   == <<service, current_mode, in_flight, response, nRequests>>
vars == <<codecVars, procVars, wsVars, devVars, webVars>>

Min(a, b) == IF a < b THEN a ELSE b

(***************************************************************************)
(*                         Part I: the frame codec                         *)
(***************************************************************************)

\* ---- bounds of the codec model
MaxPayloadLen == 2
MaxSegments == 2
MaxChunk == 2

\* ---- program constants
FRAME_HEAD == <<170, 85>>
FRAME_TAIL == <<85, 170>>
MinFrameLenMut == 2 + 2 + 2
MinFrameLen == 10
ReadBufSize == 4096

\* Option<usize>::None of find_frame_start
NoStart == -1

\* ---- u8 / u16 arithmetic
RECURSIVE Xor(_, _)
Xor(a, b) ==
    IF a = 0 THEN b
    ELSE IF b = 0 THEN a
    ELSE (((a % 2) + (b % 2)) % 2) + (2 * Xor(a \div 2, b \div 2))

FromLeBytes(lo, hi) == lo + 256 * hi
ToLeBytes(v) == <<v % 256, (v \div 256) % 256>>

\* ---- 0-based buffer access
At(b, i) == b[i + 1]
Slice(b, from, to) == SubSeq(b, from + 1, to)
Advance(b, n) == SubSeq(b, n + 1, Len(b))
InBounds(b, S) == \A i \in S : i >= 0 /\ i < Len(b)

\* ---- crc16: CRC-16/MODBUS, one bit and one byte at a time
CrcInitMut == 65535 - 65535
CrcInit == 65535
CrcShift(crc) ==
    IF crc % 2 # 0 THEN Xor(crc \div 2, 40961) ELSE crc \div 2

\* for _ in 0..8
RECURSIVE CrcBits(_, _)
CrcBits(crc, n) == IF n = 0 THEN crc ELSE CrcBits(CrcShift(crc), n - 1)

\* for &b in data.  (crc >= 0 always holds: the test makes TLC evaluate crc at
\* every byte rather than defer the whole chain to the end.)
RECURSIVE CrcFold(_, _, _)
CrcFold(crc, data, i) ==
    IF i > Len(data) \/ crc < 0 THEN crc
    ELSE CrcFold(CrcBits(Xor(crc, data[i]), 8), data, i + 1)

crc16(data) == CrcFold(CrcInit, data, 1)

\* ---- build_frame
build_frameMut(command, seq, payload) ==
    LET len  == 1 + 1 + Len(payload)
        body == <<command, seq>> \o payload
    IN FRAME_HEAD \o ToLeBytes(len % 65536) \o body \o ToLeBytes(crc16(body))
           \o FRAME_TAIL

build_frame(command, seq, payload) ==
    LET len  == 1 + 1 + Len(payload) + 2
        body == <<command, seq>> \o payload
    IN FRAME_HEAD \o ToLeBytes(len % 65536) \o body \o ToLeBytes(crc16(body))
           \o FRAME_TAIL

\* ---- find_frame_start: the first index holding HEAD, or None
RECURSIVE FindFrom(_, _)
FindFrom(b, i) ==
    IF i >= Len(b) - 1 THEN NoStart
    ELSE IF At(b, i) = FRAME_HEAD[1] /\ At(b, i + 1) = FRAME_HEAD[2] THEN i
    ELSE FindFrom(b, i + 1)

find_frame_startMut(b) ==
    IF Len(b) < 2 THEN NoStart
    ELSE IF At(b, 0) = FRAME_HEAD[1] /\ At(b, 1) = FRAME_HEAD[2] THEN 0
    ELSE Len(b) - 1

find_frame_start(b) == IF Len(b) < 2 THEN NoStart ELSE FindFrom(b, 0)

\* ---- try_parse_one
RawFrame(cmd, seq, payload) ==
    [command_id |-> cmd, sequence |-> seq, payload |-> payload]

\* What one try_parse_one call did: the buffer it leaves, the frame it returned
\* (a sequence of length 0 or 1), which return statement it left by, the LEN
\* field it read (-1 when it read none) and whether it read outside the buffer.
Attempt(b, frame, kind, len, panic) ==
    [buf |-> b, frame |-> frame, kind |-> kind, len |-> len, panic |-> panic]

PayloadLen(len) == IF len >= 4 THEN len - 4 ELSE 0

ExtractFrame(b, len, total) ==
    LET cmd           == At(b, 4)
        seq           == At(b, 5)
        payload_len   == PayloadLen(len)
        payload_start == 6
        payload_end   == payload_start + payload_len
        crc_pos       == payload_end
    IN  IF ~InBounds(b, {4, 5})
           \/ (payload_len > 0 /\ payload_end > Len(b))
           \/ ~InBounds(b, {crc_pos, crc_pos + 1})
        THEN Attempt(b, <<>>, "panic", len, TRUE)
        ELSE LET payload  == Slice(b, payload_start, payload_end)
                 rx_crc   == FromLeBytes(At(b, crc_pos), At(b, crc_pos + 1))
                 calc_crc == crc16(Slice(b, 4, crc_pos))
             IN  IF rx_crc # calc_crc
                 THEN Attempt(Advance(b, 1), <<>>, "crc", len, FALSE)
                 ELSE IF total > Len(b)
                 THEN Attempt(b, <<>>, "panic", len, TRUE)
                 ELSE Attempt(Advance(b, total), <<RawFrame(cmd, seq, payload)>>,
                              "frame", len, FALSE)

ParseAtHead(b) ==
    IF ~InBounds(b, {0, 1}) THEN Attempt(b, <<>>, "panic", -1, TRUE)
    ELSE IF At(b, 0) # FRAME_HEAD[1] \/ At(b, 1) # FRAME_HEAD[2]
    THEN Attempt(Advance(b, 1), <<>>, "badhead", -1, FALSE)
    ELSE IF ~InBounds(b, {2, 3}) THEN Attempt(b, <<>>, "panic", -1, TRUE)
    ELSE LET len   == FromLeBytes(At(b, 2), At(b, 3))
             total == 4 + len + 2
             tail  == total - 2
         IN  IF Len(b) < total THEN Attempt(b, <<>>, "wait", len, FALSE)
             ELSE IF ~InBounds(b, {tail, tail + 1})
             THEN Attempt(b, <<>>, "panic", len, TRUE)
             ELSE IF At(b, tail) # FRAME_TAIL[1] \/ At(b, tail + 1) # FRAME_TAIL[2]
             THEN Attempt(Advance(b, 1), <<>>, "tail", len, FALSE)
             ELSE ExtractFrame(b, len, total)

try_parse_one(b) ==
    LET start == find_frame_start(b)
    IN  IF start = NoStart THEN Attempt(b, <<>>, "nohead", -1, FALSE)
        ELSE LET b1 == IF start > 0 THEN Advance(b, start) ELSE b
             IN  IF Len(b1) < MinFrameLen
                 THEN Attempt(b1, <<>>, "short", -1, FALSE)
                 ELSE ParseAtHead(b1)

\* ---- parse_frames: the loop, with a record of its attempts
LogEntry(before, a) ==
    [kind |-> a.kind, len |-> a.len, before |-> Len(before), after |-> Len(a.buf)]

\* while self.buf.len() >= 10 { if let Some(frame) = self.try_parse_one()? ... }
\* LoopBody is the loop's body for the attempt a = try_parse_one(b).
RECURSIVE ParseLoop(_, _, _)
RECURSIVE LoopBody(_, _, _, _)
LoopBody(b, frames, attempts, a) ==
    IF a.panic
    THEN [buf |-> a.buf, frames |-> frames, log |-> Append(attempts, LogEntry(b, a)),
          panic |-> TRUE]
    ELSE IF a.frame # <<>>
    THEN ParseLoop(a.buf, frames \o a.frame, Append(attempts, LogEntry(b, a)))
    ELSE [buf |-> a.buf, frames |-> frames, log |-> Append(attempts, LogEntry(b, a)),
          panic |-> FALSE]

ParseLoop(b, frames, attempts) ==
    IF Len(b) >= MinFrameLen
    THEN LoopBody(b, frames, attempts, try_parse_one(b))
    ELSE [buf |-> b, frames |-> frames, log |-> attempts, panic |-> FALSE]

parse_frames(b) == ParseLoop(b, <<>>, <<>>)


\* ---- the transport: what the device (or line noise) writes
\* A segment is a valid frame, a frame with its CRC field off by one, or raw
\* bytes.
PayloadBytes == <<170, 85, 171, 205>>
PayloadOf(n, s) ==
    IF n = 0 THEN <<>>
    ELSE [i \in 1..n |-> PayloadBytes[((i + s) % Len(PayloadBytes)) + 1]]

\* <<cmd, seq, payload>>: payloads AB, AB CD, ... of every length, and the
\* longest payload that starts with a HEAD pair, AA 55 ...
FrameInputs == {<<1, 2, PayloadOf(n, 1)>> : n \in 0..MaxPayloadLen}
                   \cup {<<64, 255, PayloadOf(MaxPayloadLen, 3)>>}

CorruptCrc(f) ==
    LET i == Len(f) - 3 IN [f EXCEPT ![i] = (f[i] + 1) % 256]

\* A segment: what it is, the (cmd, seq, payload) it was built from (frames
\* only) and the bytes written.
Seg(kind, cmd, seq, payload, bytes) ==
    [kind |-> kind, cmd |-> cmd, seq |-> seq, payload |-> payload, bytes |-> bytes]

FrameBytes(k, f) ==
    IF k = "valid" THEN build_frame(f[1], f[2], f[3])
    ELSE CorruptCrc(build_frame(f[1], f[2], f[3]))

FrameSegs(k, inputs) == {Seg(k, f[1], f[2], f[3], FrameBytes(k, f)) : f \in inputs}

\* The frame of the framing example as printed, LEN = 5, and with LEN = 6;
\* 0xBD1E is CRC-16/MODBUS of 01 02 AB CD.
ExampleLen5 == <<170, 85, 5, 0, 1, 2, 171, 205, 30, 189, 85, 170>>
ExampleLen6 == <<170, 85, 6, 0, 1, 2, 171, 205, 30, 189, 85, 170>>

\* Bytes with no HEAD pair in them
Garbage == { <<255, 255, 170>>, <<85, 170, 0, 255, 255>> }
Stubs == { <<170, 85, 0, 0, 85, 170, 190, 159>>, \* LEN = 0, TAIL, then crc16(55 AA)
           <<170, 85, 255, 255>> }               \* LEN = 0xFFFF
RawSegs == {Seg("raw", 0, 0, <<>>, r) :
               r \in Garbage \cup Stubs \cup {ExampleLen5, ExampleLen6}}

\* Every frame as built, and the shortest and the longest one also with its CRC
\* field off by one
CorruptedInputs == {<<1, 2, <<>>>>, <<64, 255, PayloadOf(MaxPayloadLen, 3)>>}
Segments == FrameSegs("valid", FrameInputs) \cup FrameSegs("badcrc", CorruptedInputs)
                \cup RawSegs

Bytes(d) == d.bytes

FrameOf(d) == RawFrame(d.cmd, d.seq, d.payload)


HasHead(b) == \E i \in 1..(Len(b) - 1) : b[i] = FRAME_HEAD[1] /\ b[i + 1] = FRAME_HEAD[2]

\* ---- ProtocolParser::new, with nothing written yet
InitCodec ==
    /\ buf = <<>>
    /\ wire = <<>>
    /\ out = <<>>
    /\ log = <<>>
    /\ panicked = FALSE
    /\ sent = <<>>
    /\ nfed = 0
    /\ ncalls = 0
    /\ nframes = 0
    /\ lenBefore = 0

\* The device writes a segment.
DeviceWrite(d) ==
    /\ Len(sent) < MaxSegments
    /\ sent' = Append(sent, d)
    /\ wire' = wire \o Bytes(d)
    /\ UNCHANGED <<buf, out, log, panicked, nfed, ncalls, nframes, lenBefore>>
    /\ UNCHANGED <<procVars, wsVars, devVars, webVars>>

\* The session reads n bytes (Connection::read returns n > 0 bytes of a 4096-byte
\* buffer) and hands them to feed_data: extend_from_slice, then parse_frames.
\* A read returns up to MaxChunk bytes, or all that is on the wire.
feed_data(n) ==
    /\ ~panicked
    /\ n >= 1 /\ n <= Min(Len(wire), ReadBufSize)
    /\ n <= MaxChunk \/ n = Len(wire)
    /\ \E r \in {parse_frames(buf \o SubSeq(wire, 1, n))} :
           /\ buf' = r.buf
           /\ out' = r.frames
           /\ log' = r.log
           /\ panicked' = r.panic
           /\ nframes' = nframes + Len(r.frames)
           /\ lenBefore' = Len(buf) + n
    /\ wire' = SubSeq(wire, n + 1, Len(wire))
    /\ nfed' = nfed + n
    /\ ncalls' = Min(ncalls + 1, 2)
    /\ UNCHANGED sent
    /\ UNCHANGED <<procVars, wsVars, devVars, webVars>>


(***************************************************************************)
(*            Part II: the sample decoder and burst accumulator            *)
(*                                                                         *)
(* An f64 is modelled exactly, as the integer number of 1/Den units it     *)
(* holds: Den = 65535 * 10 * 5 makes the voltage of every i16 and every    *)
(* 5-point average of such voltages a whole number of units.  Rounding of  *)
(* f64 arithmetic is not modelled.  Of ProcessedData the model keeps       *)
(* timestamp, sequence, channel_count, data, the channel ids of            *)
(* metadata.channel_info and data_type; sample_rate, processing_time_us    *)
(* and the min/max/avg statistics are left out.  Option<T> is a sequence   *)
(* of length 0 or 1, except Option<u32> timestamps, where None is -1.      *)
(***************************************************************************)

\* ---- bounds of the processor model
MaxPackets == 2
MaxTriggers == 1
MaxNow == 1

\* ---- program constants
max_cached_bursts == 10
Den == 3276750
NoTs == -1

\* ---- u16 / i16 helpers
RECURSIVE count_ones(_)
count_ones(mask) == IF mask = 0 THEN 0 ELSE (mask % 2) + count_ones(mask \div 2)

BitSet(mask, bit) == (mask \div (2 ^ bit)) % 2 = 1

I16FromLeBytes(lo, hi) ==
    LET v == lo + 256 * hi IN IF v >= 32768 THEN v - 65536 ELSE v

\* ((raw as f64 + 32768.0) / 65535.0) * 3.3, in 1/Den units
Voltage(raw) == (raw + 32768) * ((33 * Den) \div 655350)

\* ---- get_channel_id_from_mask
RECURSIVE ChannelIdFrom(_, _, _, _)
ChannelIdFrom(mask, index, bit, current_index) ==
    IF bit >= 16 THEN index
    ELSE IF BitSet(mask, bit)
         THEN IF current_index = index THEN bit
              ELSE ChannelIdFrom(mask, index, bit + 1, current_index + 1)
         ELSE ChannelIdFrom(mask, index, bit + 1, current_index)

get_channel_id_from_mask(mask, index) == ChannelIdFrom(mask, index, 0, 0)

\* ---- apply_filter: 5-point moving average, the two samples at each end kept
apply_filter(samples) ==
    IF Len(samples) <= 5 THEN samples
    ELSE [k \in 1..Len(samples) |->
             LET i == k - 1
             IN  IF i < 2 \/ i + 2 >= Len(samples) THEN samples[k]
                 ELSE (samples[k - 2] + samples[k - 1] + samples[k] + samples[k + 1]
                          + samples[k + 2]) \div 5]

\* ---- process_packet, step 1: the samples of channel ch_idx, then of all channels
ChannelSamples(packet, sample_count, ch_idx) ==
    LET start_idx == ch_idx * sample_count * 2
        end_idx   == start_idx + sample_count * 2
    IN  IF end_idx <= Len(packet.sensor_data)
        THEN [j \in 1..sample_count |->
                 Voltage(I16FromLeBytes(At(packet.sensor_data, start_idx + 2 * (j - 1)),
                                        At(packet.sensor_data, start_idx + 2 * (j - 1) + 1)))]
        ELSE <<>>

RECURSIVE AllSamples(_, _, _, _)
AllSamples(packet, channel_count, sample_count, ch_idx) ==
    IF ch_idx >= channel_count THEN <<>>
    ELSE (IF sample_count = 0 THEN <<>>
          ELSE ChannelSamples(packet, sample_count, ch_idx))
         \o AllSamples(packet, channel_count, sample_count, ch_idx + 1)

ChannelIds(packet, channel_count) ==
    [k \in 1..channel_count |-> get_channel_id_from_mask(packet.enabled_channels, k - 1)]

\* ---- process_packet: the validation
ExpectedLenMut(channel_count, sample_count) == channel_count * sample_count
ExpectedLen(channel_count, sample_count) == channel_count * sample_count * 2

Accepts(packet) ==
    LET channel_count == count_ones(packet.enabled_channels)
    IN  /\ channel_count # 0
        /\ Len(packet.sensor_data) = ExpectedLen(channel_count, packet.sample_count)

\* ---- process_packet, step 4: the trigger bookkeeping
\* <<current_trigger_timestamp, trigger_burst_sequence>> after the packet
TriggerStateMut(packet) ==
    IF ~packet.data_type.trigger THEN <<NoTs, 0>>
    ELSE <<packet.data_type.trigger_timestamp, trigger_burst_sequence + 1>>

TriggerState(packet) ==
    IF ~packet.data_type.trigger THEN <<NoTs, 0>>
    ELSE IF current_trigger_timestamp # packet.data_type.trigger_timestamp
         THEN <<packet.data_type.trigger_timestamp, 0 + 1>>
         ELSE <<current_trigger_timestamp, trigger_burst_sequence + 1>>

Processed(packet) ==
    LET channel_count == count_ones(packet.enabled_channels)
        all_samples   == AllSamples(packet, channel_count, packet.sample_count, 0)
        ts            == TriggerState(packet)
    IN  [ timestamp     |-> packet.timestamp_ms,
          sequence      |-> packet_sequence + 1,
          channel_count |-> channel_count,
          data          |-> apply_filter(all_samples),
          channel_info  |-> ChannelIds(packet, channel_count),
          source        |-> IF packet.data_type.trigger THEN "Trigger" ELSE "Continuous",
          trigger_info  |-> IF packet.data_type.trigger
                            THEN << [ trigger_timestamp |-> packet.data_type.trigger_timestamp,
                                      is_complete       |-> packet.data_type.is_complete,
                                      sequence_in_burst |-> ts[2] ] >>
                            ELSE <<>> ]

\* burst.data_packets.push(processed.clone()); burst.total_samples += processed.data.len()
BurstAppendMut(burst, processed) ==
    [burst EXCEPT !.data_packets = Append(@, processed),
                  !.total_samples = @ + processed.channel_count]

BurstAppend(burst, processed) ==
    [burst EXCEPT !.data_packets = Append(@, processed),
                  !.total_samples = @ + Len(processed.data)]

\* if let DataType::Trigger { .. } = &packet.data_type { if let Some(burst) = ... }
AppendsToBurstMut(packet) == current_trigger_burst # <<>>
AppendsToBurst(packet) == packet.data_type.trigger /\ current_trigger_burst # <<>>

process_packet_call(packet) ==
    /\ nCalls < MaxPackets
    /\ nCalls' = nCalls + 1
    /\ lastPacket' = <<packet>>
    /\ packet_sequence' = packet_sequence + 1
    /\ IF ~Accepts(packet)
       THEN /\ result' = [ok |-> FALSE, value |-> <<>>]
            /\ UNCHANGED <<trigger_burst_sequence, current_trigger_timestamp,
                           current_trigger_burst, nAccepted, lifecycle>>
       ELSE LET processed == Processed(packet)
                ts        == TriggerState(packet)
            IN  /\ result' = [ok |-> TRUE, value |-> <<processed>>]
                /\ nAccepted' = nAccepted + 1
                /\ current_trigger_timestamp' = ts[1]
                /\ trigger_burst_sequence' = ts[2]
                /\ IF AppendsToBurst(packet)
                   THEN current_trigger_burst' =
                            <<BurstAppend(current_trigger_burst[1], processed)>>
                   ELSE UNCHANGED current_trigger_burst
                /\ lifecycle' =
                       IF packet.data_type.trigger /\ lifecycle.phase = "open"
                       THEN [lifecycle EXCEPT !.packets = Append(@, processed)]
                       ELSE lifecycle
    /\ UNCHANGED <<completed_trigger_bursts, now, nTriggers, completed_order>>
    /\ UNCHANGED codecVars

\* The call alone, the websocket side left as it is.
process_packet(packet) == process_packet_call(packet) /\ UNCHANGED <<wsVars, devVars, webVars>>


\* ---- start_trigger_burst
\* format!("trigger_{}_{}", timestamp, now_ms) is the pair <<timestamp, now_ms>>
BurstId(timestamp, millis) == <<timestamp, millis>>

NewBurst(trigger_event, id_millis, created_at) ==
    [ burst_id          |-> BurstId(trigger_event.timestamp, id_millis),
      trigger_timestamp |-> trigger_event.timestamp,
      trigger_channel   |-> trigger_event.channel,
      pre_samples       |-> trigger_event.pre_samples,
      post_samples      |-> trigger_event.post_samples,
      data_packets      |-> <<>>,
      is_complete       |-> FALSE,
      total_samples     |-> 0,
      created_at        |-> created_at,
      quality_summary   |-> [overall_quality |-> "Good", voltage_range |-> <<>>] ]

\* The clock is read twice, for burst_id and for created_at; it may advance by
\* dt in between.
start_trigger_burst_call(trigger_event, dt) ==
    /\ nTriggers < MaxTriggers
    /\ now + dt <= MaxNow
    /\ current_trigger_burst' = <<NewBurst(trigger_event, now, now + dt)>>
    /\ now' = now + dt
    /\ nTriggers' = nTriggers + 1
    /\ lifecycle' = [phase |-> "open", packets |-> <<>>]
    /\ UNCHANGED <<packet_sequence, trigger_burst_sequence, current_trigger_timestamp,
                   completed_trigger_bursts, result, lastPacket, nAccepted, nCalls,
                   completed_order>>
    /\ UNCHANGED codecVars

\* The call alone, the websocket side left as it is.
start_trigger_burst(trigger_event, dt) ==
    start_trigger_burst_call(trigger_event, dt) /\ UNCHANGED <<wsVars, devVars, webVars>>

\* ---- calculate_quality_summary / assess_burst_quality
RECURSIVE BurstSamples(_)
BurstSamples(packets) ==
    IF packets = <<>> THEN <<>>
    ELSE Head(packets).data \o BurstSamples(Tail(packets))

SeqMin(xs) == CHOOSE x \in {xs[i] : i \in 1..Len(xs)} : \A i \in 1..Len(xs) : x <= xs[i]
SeqMax(xs) == CHOOSE x \in {xs[i] : i \in 1..Len(xs)} : \A i \in 1..Len(xs) : x >= xs[i]

\* (f64::INFINITY, f64::NEG_INFINITY) is <<>>
VoltageRange(burst) ==
    LET all_samples == BurstSamples(burst.data_packets)
    IN  IF all_samples = <<>> THEN burst.quality_summary.voltage_range
        ELSE <<SeqMin(all_samples), SeqMax(all_samples)>>

assess_burst_quality(burst, range) ==
    IF range # <<>> /\ (10 * range[1] < -1 * Den \/ 10 * range[2] > 34 * Den)
    THEN "Warning"
    ELSE IF ~burst.is_complete THEN "Warning"
    ELSE IF burst.data_packets = <<>> THEN "Error"
    ELSE "Good"

calculate_quality_summary(burst) ==
    LET range == VoltageRange(burst)
    IN  [burst EXCEPT !.quality_summary =
            [overall_quality |-> assess_burst_quality(burst, range),
             voltage_range   |-> range]]

\* ---- complete_trigger_burst
MarkCompleteMut(burst) == burst
MarkComplete(burst) == [burst EXCEPT !.is_complete = TRUE]

\* The sequence ids with every element equal to id left out
Without(ids, id) == SelectSeq(ids, LAMBDA x : x # id)

MapInsert(m, k, v) == [x \in DOMAIN m \cup {k} |-> IF x = k THEN v ELSE m[x]]
MapRemoveMut(m, k) == m
MapRemove(m, k) == [x \in DOMAIN m \ {k} |-> m[x]]

\* timestamps.sort_by_key(created_at); timestamps[0]: a burst of the smallest
\* created_at; among several of them, the first in the HashMap's iteration order
Oldest(m) == {k \in DOMAIN m : \A x \in DOMAIN m : m[k].created_at <= m[x].created_at}

complete_trigger_burst_call ==
    /\ IF current_trigger_burst # <<>>
       THEN LET burst    == calculate_quality_summary(
                                MarkComplete(current_trigger_burst[1]))
                inserted == MapInsert(completed_trigger_bursts, burst.burst_id, burst)
                order    == Append(Without(completed_order, burst.burst_id),
                                   burst.burst_id)
            IN  /\ IF Cardinality(DOMAIN inserted) > max_cached_bursts
                   THEN \E oldest_id \in Oldest(inserted) :
                            /\ completed_trigger_bursts' = MapRemove(inserted, oldest_id)
                            /\ completed_order' = Without(order, oldest_id)
                   ELSE /\ completed_trigger_bursts' = inserted
                        /\ completed_order' = order
                /\ current_trigger_burst' = <<>>
       ELSE UNCHANGED <<current_trigger_burst, completed_trigger_bursts,
                        completed_order>>
    /\ lifecycle' = IF lifecycle.phase = "open"
                    THEN [phase |-> "closed", packets |-> <<>>]
                    ELSE lifecycle
    /\ UNCHANGED <<packet_sequence, trigger_burst_sequence, current_trigger_timestamp,
                   now, result, lastPacket, nAccepted, nCalls, nTriggers>>
    /\ UNCHANGED codecVars

\* The call alone, the websocket side left as it is.
complete_trigger_burst == complete_trigger_burst_call /\ UNCHANGED <<wsVars, devVars, webVars>>

\* ---- remove_trigger_burst
\* What remove returns: remove(..).is_some()
RemovedMut(burst_id) == TRUE
Removed(burst_id) == burst_id \in DOMAIN completed_trigger_bursts

remove_trigger_burst_call(burst_id) ==
    /\ completed_trigger_bursts' =
           IF burst_id \in DOMAIN completed_trigger_bursts
           THEN MapRemove(completed_trigger_bursts, burst_id)
           ELSE completed_trigger_bursts
    /\ completed_order' = Without(completed_order, burst_id)
    /\ UNCHANGED <<packet_sequence, trigger_burst_sequence, current_trigger_timestamp,
                   current_trigger_burst, now, result, lastPacket, nAccepted, nCalls,
                   nTriggers, lifecycle>>
    /\ UNCHANGED codecVars

remove_trigger_burst(burst_id) ==
    remove_trigger_burst_call(burst_id) /\ UNCHANGED <<wsVars, devVars, webVars>>

\* ---- get_trigger_burst: <<the burst>>, or <<>> for None
get_trigger_burst(burst_id) ==
    IF burst_id \in DOMAIN completed_trigger_bursts
    THEN <<completed_trigger_bursts[burst_id]>> ELSE <<>>

\* ---- export_trigger_burst: the bytes stand as the format and the burst
\* they were made from
ExportFormats == {"json", "csv", "binary"}
export_trigger_burst(burst_id, format) ==
    IF get_trigger_burst(burst_id) = <<>>
    THEN [ok |-> FALSE, error |-> "Trigger burst not found"]
    ELSE IF format \notin ExportFormats
    THEN [ok |-> FALSE, error |-> "Unsupported format"]
    ELSE [ok |-> TRUE, format |-> format, burst |-> get_trigger_burst(burst_id)[1]]

\* ---- reset_trigger_state
reset_trigger_state_call ==
    /\ current_trigger_timestamp' = NoTs
    /\ trigger_burst_sequence' = 0
    /\ current_trigger_burst' = <<>>
    /\ lifecycle' = [phase |-> "none", packets |-> <<>>]
    /\ UNCHANGED <<packet_sequence, completed_trigger_bursts, now, result, lastPacket,
                   nAccepted, nCalls, nTriggers, completed_order>>
    /\ UNCHANGED codecVars

reset_trigger_state == reset_trigger_state_call /\ UNCHANGED <<wsVars, devVars, webVars>>

\* The wall clock advances.
Tick ==
    /\ now < MaxNow
    /\ now' = now + 1
    /\ UNCHANGED <<packet_sequence, trigger_burst_sequence, current_trigger_timestamp,
                   current_trigger_burst, completed_trigger_bursts, result, lastPacket,
                   nAccepted, nCalls, nTriggers, completed_order, lifecycle>>
    /\ UNCHANGED <<codecVars, wsVars, devVars, webVars>>

\* ---- the inputs of the processor
Continuous == [trigger |-> FALSE, trigger_timestamp |-> 0, is_complete |-> FALSE]
Trigger(ts) == [trigger |-> TRUE, trigger_timestamp |-> ts, is_complete |-> FALSE]

\* i16 samples 16, -1, -32768, 32767, 4660, 1, 0, 256 as little-endian bytes
SensorBytes == <<16, 0, 255, 255, 0, 128, 255, 127, 52, 18, 1, 0, 0, 0, 0, 1>>
SensorData(n, off) ==
    IF n = 0 THEN <<>>
    ELSE [i \in 1..n |-> SensorBytes[((i - 1 + off) % Len(SensorBytes)) + 1]]

\* <<enabled_channels, sample_count, sensor_data.len() - expected, offset>>
Shapes == { <<1, 2, 0, 0>>,     \* one channel, two samples
            <<3, 3, 0, 0>>,     \* two channels, three samples each
            <<5, 1, 0, 4>>,     \* channels 0 and 2
            <<1, 0, 0, 0>>,     \* no samples
            <<0, 2, 4, 0>>,     \* no enabled channel
            <<3, 1, 1, 0>> }    \* one byte too many

DataPacket(shape, data_type) ==
    [ timestamp_ms     |-> 7,
      enabled_channels |-> shape[1],
      sample_count     |-> shape[2],
      sensor_data      |-> SensorData(count_ones(shape[1]) * shape[2] * 2 + shape[3],
                                      shape[4]),
      data_type        |-> data_type ]

TriggerTimestamps == {100, 200}
\* Every shape as a Continuous packet and as a packet of trigger 100; the two
\* shapes with several samples also as a packet of trigger 200.
Packets == {DataPacket(sh, dt) : sh \in Shapes, dt \in {Continuous, Trigger(100)}}
               \cup {DataPacket(sh, Trigger(200)) : sh \in {<<1, 2, 0, 0>>, <<3, 3, 0, 0>>}}
TriggerEvents == {[timestamp |-> ts, channel |-> 0, pre_samples |-> 10, post_samples |-> 20] :
                     ts \in TriggerTimestamps}
BurstIds == {BurstId(ts, ms) : ts \in TriggerTimestamps, ms \in 0..MaxNow}

\* ---- DataProcessor::new
InitProc ==
    /\ packet_sequence = 0
    /\ trigger_burst_sequence = 0
    /\ current_trigger_timestamp = NoTs
    /\ current_trigger_burst = <<>>
    /\ completed_trigger_bursts = <<>>
    /\ now = 0
    /\ result = [ok |-> FALSE, value |-> <<>>]
    /\ lastPacket = <<>>
    /\ nAccepted = 0
    /\ nCalls = 0
    /\ nTriggers = 0
    /\ completed_order = <<>>
    /\ lifecycle = [phase |-> "none", packets |-> <<>>]

\* ---- a DataProcessor whose cache is full
\* The state after max_cached_bursts TriggerEvent / BufferTransferComplete pairs
\* with no data packet in between.  The bursts are numbered in completion
\* order; the last one is of trigger timestamp 100, started at millisecond 0,
\* the present.  Their start times are one of:
\*   "spread"  one burst per millisecond, the last max_cached_bursts milliseconds
\*   "pair"    as "spread", but the second burst began in the millisecond of the first
\*   "burst"   all began in the present millisecond
PrefillKinds == {"spread", "pair", "burst"}

PrefillTimestamp(i) == IF i = max_cached_bursts THEN 100 ELSE i

PrefillMillis(kind, i) ==
    IF kind = "burst" THEN 0
    ELSE IF kind = "pair" /\ i = 2 THEN 1 - max_cached_bursts
    ELSE i - max_cached_bursts

PrefillBurst(kind, i) ==
    calculate_quality_summary(MarkComplete(
        NewBurst([timestamp |-> PrefillTimestamp(i), channel |-> 0,
                  pre_samples |-> 10, post_samples |-> 20],
                 PrefillMillis(kind, i), PrefillMillis(kind, i))))

PrefillIds(kind) ==
    [i \in 1..max_cached_bursts |-> BurstId(PrefillTimestamp(i), PrefillMillis(kind, i))]

PrefillCache(kind) ==
    LET ids == PrefillIds(kind)
    IN  [id \in {ids[i] : i \in 1..max_cached_bursts} |->
            PrefillBurst(kind, CHOOSE i \in 1..max_cached_bursts : ids[i] = id)]

InitFullCache ==
    /\ packet_sequence = 0
    /\ trigger_burst_sequence = 0
    /\ current_trigger_timestamp = NoTs
    /\ current_trigger_burst = <<>>
    /\ \E kind \in PrefillKinds :
           /\ completed_trigger_bursts = PrefillCache(kind)
           /\ completed_order = PrefillIds(kind)
    /\ now = 0
    /\ result = [ok |-> FALSE, value |-> <<>>]
    /\ lastPacket = <<>>
    /\ nAccepted = 0
    /\ nCalls = 0
    /\ nTriggers = 0
    /\ lifecycle = [phase |-> "none", packets |-> <<>>]

\* The packets and the deletes tried on the full cache
CachePackets == {DataPacket(<<1, 2, 0, 0>>, dt) : dt \in {Continuous, Trigger(100)}}
CacheDeletes == {BurstId(3, 3 - max_cached_bursts)}
                    \cup {BurstId(ts, 0) : ts \in TriggerTimestamps}

(***************************************************************************)
(*        Part III: the broadcast channels and the WebSocketServer         *)
(*                                                                         *)
(* A JSON text frame is the record of the fields the model keeps; the      *)
(* wall-clock fields (timestamp, event_time) and the statistics are left   *)
(* out.  A client id stands for the Uuid of one connection and is never    *)
(* used again.  Each broadcast is one step: it runs under the read lock on *)
(* the clients map, and a subscribe needs the write lock.                  *)
(***************************************************************************)

\* ---- bounds of the websocket model
MaxMessages == 2
AnyCapacity == 2

\* ---- program constants
processed_capacity == 1000
trigger_event_capacity == 100
burst_complete_capacity == 100

ClientIds == {"c1", "c2"}

\* ---- tokio::sync::broadcast, as the one receiver of a topic pump sees it
\* The buffer has capacity.next_power_of_two() slots.
RECURSIVE NextPowerOfTwo(_, _)
NextPowerOfTwo(n, p) == IF p >= n THEN p ELSE NextPowerOfTwo(n, 2 * p)
BufferSlots(capacity) == NextPowerOfTwo(capacity, 1)

EmptyChannel == [pending |-> <<>>, lagged |-> FALSE]

\* Sender::send never waits: with every slot taken the oldest value is
\* overwritten and the receiver has lagged.
ChannelSend(ch, capacity, value) ==
    IF Len(ch.pending) < BufferSlots(capacity)
    THEN [ch EXCEPT !.pending = Append(@, value)]
    ELSE [pending |-> Append(Tail(ch.pending), value), lagged |-> TRUE]

\* A topic pump: while let Ok(x) = rx.recv().await { broadcast(x).await }
\* holding is the value received and not yet broadcast.
IdlePump == [alive |-> TRUE, holding |-> <<>>]

\* A send after the pump has ended goes to no receiver of the pump.
Publish(pump, ch, capacity, value) ==
    IF pump.alive THEN ChannelSend(ch, capacity, value) ELSE ch

\* rx.recv(): Err(Lagged) ends the loop, and with it the pump, for good.
PumpRecv(pump, ch) ==
    IF ch.lagged
    THEN <<[alive |-> FALSE, holding |-> <<>>], EmptyChannel>>
    ELSE <<[pump EXCEPT !.holding = <<Head(ch.pending)>>],
           [ch EXCEPT !.pending = Tail(@)]>>

CanRecv(pump, ch) ==
    /\ pump.alive
    /\ pump.holding = <<>>
    /\ ch.lagged \/ ch.pending # <<>>

\* ---- ClientSubscriptions
DefaultSubscriptions ==
    [ data_stream |-> TRUE, trigger_events |-> TRUE, trigger_bursts |-> TRUE,
      continuous_only |-> FALSE, trigger_only |-> FALSE ]

ResetSubscriptionsMut(subs) == subs
ResetSubscriptions(subs) ==
    [ data_stream |-> FALSE, trigger_events |-> FALSE, trigger_bursts |-> FALSE,
      continuous_only |-> FALSE, trigger_only |-> FALSE ]

ApplyChannel(subs, channel_str) ==
    CASE channel_str = "data" -> [subs EXCEPT !.data_stream = TRUE]
      [] channel_str = "trigger_events" -> [subs EXCEPT !.trigger_events = TRUE]
      [] channel_str = "trigger_bursts" -> [subs EXCEPT !.trigger_bursts = TRUE]
      [] channel_str = "continuous_only" ->
             [subs EXCEPT !.data_stream = TRUE, !.continuous_only = TRUE]
      [] channel_str = "trigger_only" ->
             [subs EXCEPT !.data_stream = TRUE, !.trigger_only = TRUE]
      [] channel_str = "all" ->
             [subs EXCEPT !.data_stream = TRUE, !.trigger_events = TRUE,
                          !.trigger_bursts = TRUE]
      [] OTHER -> subs

RECURSIVE ApplyChannels(_, _)
ApplyChannels(subs, channels) ==
    IF channels = <<>> THEN subs
    ELSE ApplyChannels(ApplyChannel(subs, Head(channels)), Tail(channels))

\* ---- the frames
Welcome(client_id) == [type |-> "welcome", client_id |-> client_id]

SubscriptionUpdated(client_id, subs) ==
    [type |-> "subscription_updated", client_id |-> client_id, subscriptions |-> subs]

Pong == [type |-> "pong"]

DataFrame(data) ==
    [ type          |-> "data",
      timestamp     |-> data.timestamp,
      sequence      |-> data.sequence,
      channel_count |-> data.channel_count,
      data          |-> data.data,
      source        |-> data.source,
      trigger_info  |-> data.trigger_info ]

TriggerEventFrame(trigger_event) ==
    [ type          |-> "trigger_event",
      timestamp     |-> trigger_event.timestamp,
      channel       |-> trigger_event.channel,
      pre_samples   |-> trigger_event.pre_samples,
      post_samples  |-> trigger_event.post_samples ]

\* calculate_burst_duration: last_ts - first_ts on u64.  With last_ts below
\* first_ts the subtraction overflows: a panic where overflow checks are on,
\* the wrapped difference where they are off.
\* A negative value stands for the wrapped difference, 2^64 more.
calculate_burst_duration(burst) ==
    IF Len(burst.data_packets) <= 1 THEN {[panic |-> FALSE, value |-> 0]}
    ELSE LET first_ts == burst.data_packets[1].timestamp
             last_ts  == burst.data_packets[Len(burst.data_packets)].timestamp
         IN  IF last_ts >= first_ts
             THEN {[panic |-> FALSE, value |-> last_ts - first_ts]}
             ELSE {[panic |-> TRUE, value |-> 0],
                   [panic |-> FALSE, value |-> last_ts - first_ts]}

BurstCompleteFrame(burst, duration_ms) ==
    [ type              |-> "trigger_burst_complete",
      burst_id          |-> burst.burst_id,
      trigger_timestamp |-> burst.trigger_timestamp,
      trigger_channel   |-> burst.trigger_channel,
      total_samples     |-> burst.total_samples,
      total_packets     |-> Len(burst.data_packets),
      duration_ms       |-> duration_ms,
      quality           |-> burst.quality_summary.overall_quality,
      can_save          |-> burst.is_complete /\ burst.data_packets # <<>>,
      created_at        |-> burst.created_at ]

\* ---- mpsc::unbounded_channel: send never waits and never refuses
SendReadyMut(q) == Len(q) < AnyCapacity
SendReady(q) == TRUE

EnqueueMut(q, frame) == <<frame>> \o q
Enqueue(q, frame) == Append(q, frame)

\* ---- broadcast_data: the subscription filter
should_sendMut(subs, source) == subs.data_stream
should_send(subs, source) ==
    /\ subs.data_stream
    /\ IF source = "Continuous" THEN ~subs.trigger_only ELSE ~subs.continuous_only

\* The queues after frame was sent to the clients of the set to
SendTo(to, frame) ==
    [c \in ClientIds |-> IF c \in to THEN Enqueue(queue[c], frame) ELSE queue[c]]

NumHandled == Len(handled["c1"]) + Len(handled["c2"])

\* ---- the event router of main: one device event, handled whole
CompletedBurstMut == current_trigger_burst[1]
CompletedBurst == calculate_quality_summary(MarkComplete(current_trigger_burst[1]))

on_data_packet_call(packet) ==
    /\ process_packet_call(packet)
    /\ processed_ch' =
           IF Accepts(packet)
           THEN Publish(data_pump, processed_ch, processed_capacity, Processed(packet))
           ELSE processed_ch
    /\ UNCHANGED <<trigger_event_ch, burst_complete_ch, data_pump, trigger_pump,
                   burst_pump, clients, conn, reader, client_count, queue, ws_sent, handled, published,
                   fanned>>

on_trigger_event_call(trigger_event, dt) ==
    /\ start_trigger_burst_call(trigger_event, dt)
    /\ trigger_event_ch' =
           Publish(trigger_pump, trigger_event_ch, trigger_event_capacity, trigger_event)
    /\ UNCHANGED <<processed_ch, burst_complete_ch, data_pump, trigger_pump,
                   burst_pump, clients, conn, reader, client_count, queue, ws_sent, handled, published,
                   fanned>>

on_buffer_transfer_complete_call ==
    /\ complete_trigger_burst_call
    /\ IF current_trigger_burst # <<>>
       THEN /\ burst_complete_ch' =
                   Publish(burst_pump, burst_complete_ch, burst_complete_capacity,
                           CompletedBurst)
            /\ published' = Append(published, CompletedBurst.burst_id)
       ELSE UNCHANGED <<burst_complete_ch, published>>
    /\ UNCHANGED <<processed_ch, trigger_event_ch, data_pump, trigger_pump,
                   burst_pump, clients, conn, reader, client_count, queue, ws_sent, handled, fanned>>

\* The same handlers, with the event taken as given
on_data_packet(packet) ==
    /\ on_data_packet_call(packet)
    /\ device_status' = TRUE
    /\ UNCHANGED <<sessionVars, event_log, webVars>>
on_trigger_event(trigger_event, dt) ==
    on_trigger_event_call(trigger_event, dt) /\ UNCHANGED <<devVars, webVars>>
on_buffer_transfer_complete ==
    on_buffer_transfer_complete_call /\ UNCHANGED <<devVars, webVars>>

\* ---- WebSocketServer::run: the three topic pumps
data_pump_recv ==
    /\ CanRecv(data_pump, processed_ch)
    /\ data_pump' = PumpRecv(data_pump, processed_ch)[1]
    /\ processed_ch' = PumpRecv(data_pump, processed_ch)[2]
    /\ UNCHANGED <<trigger_event_ch, burst_complete_ch, trigger_pump, burst_pump,
                   clients, conn, reader, client_count, queue, ws_sent, handled, published, fanned>>
    /\ UNCHANGED <<codecVars, procVars, devVars, webVars>>

trigger_pump_recv ==
    /\ CanRecv(trigger_pump, trigger_event_ch)
    /\ trigger_pump' = PumpRecv(trigger_pump, trigger_event_ch)[1]
    /\ trigger_event_ch' = PumpRecv(trigger_pump, trigger_event_ch)[2]
    /\ UNCHANGED <<processed_ch, burst_complete_ch, data_pump, burst_pump,
                   clients, conn, reader, client_count, queue, ws_sent, handled, published, fanned>>
    /\ UNCHANGED <<codecVars, procVars, devVars, webVars>>

burst_pump_recv ==
    /\ CanRecv(burst_pump, burst_complete_ch)
    /\ burst_pump' = PumpRecv(burst_pump, burst_complete_ch)[1]
    /\ burst_complete_ch' = PumpRecv(burst_pump, burst_complete_ch)[2]
    /\ UNCHANGED <<processed_ch, trigger_event_ch, data_pump, trigger_pump,
                   clients, conn, reader, client_count, queue, ws_sent, handled, published, fanned>>
    /\ UNCHANGED <<codecVars, procVars, devVars, webVars>>

\* ---- broadcast_data
broadcast_data ==
    /\ data_pump.holding # <<>>
    /\ LET data == data_pump.holding[1]
           to   == {c \in DOMAIN clients : should_send(clients[c], data.source)}
       IN  /\ \A c \in to : SendReady(queue[c])
           /\ queue' = SendTo(to, DataFrame(data))
    /\ data_pump' = IdlePump
    /\ UNCHANGED <<processed_ch, trigger_event_ch, burst_complete_ch, trigger_pump,
                   burst_pump, clients, conn, reader, client_count, ws_sent, handled, published, fanned>>
    /\ UNCHANGED <<codecVars, procVars, devVars, webVars>>

\* ---- broadcast_trigger_event
broadcast_trigger_event ==
    /\ trigger_pump.holding # <<>>
    /\ LET to == {c \in DOMAIN clients : clients[c].trigger_events}
       IN  /\ \A c \in to : SendReady(queue[c])
           /\ queue' = SendTo(to, TriggerEventFrame(trigger_pump.holding[1]))
    /\ trigger_pump' = IdlePump
    /\ UNCHANGED <<processed_ch, trigger_event_ch, burst_complete_ch, data_pump,
                   burst_pump, clients, conn, reader, client_count, ws_sent, handled, published, fanned>>
    /\ UNCHANGED <<codecVars, procVars, devVars, webVars>>

\* ---- broadcast_trigger_burst_complete
broadcast_trigger_burst_complete ==
    /\ burst_pump.holding # <<>>
    /\ LET trigger_burst == burst_pump.holding[1]
           to == {c \in DOMAIN clients : clients[c].trigger_bursts}
       IN  \E duration \in calculate_burst_duration(trigger_burst) :
               IF duration.panic
               THEN /\ burst_pump' = [alive |-> FALSE, holding |-> <<>>]
                    /\ burst_complete_ch' = EmptyChannel
                    /\ UNCHANGED <<queue, fanned>>
               ELSE /\ \A c \in to : SendReady(queue[c])
                    /\ queue' = SendTo(to, BurstCompleteFrame(trigger_burst,
                                                              duration.value))
                    /\ fanned' = Append(fanned, [burst_id |-> trigger_burst.burst_id,
                                                 subscribers |-> to])
                    /\ burst_pump' = IdlePump
                    /\ UNCHANGED burst_complete_ch
    /\ UNCHANGED <<processed_ch, trigger_event_ch, data_pump, trigger_pump,
                   clients, conn, reader, client_count, ws_sent, handled, published>>
    /\ UNCHANGED <<codecVars, procVars, devVars, webVars>>

\* ---- handle_connection
\* The client enters the map with the default subscriptions ...
handle_connection(client_id) ==
    /\ conn[client_id] = "none"
    /\ conn' = [conn EXCEPT ![client_id] = "inserted"]
    /\ clients' = MapInsert(clients, client_id, DefaultSubscriptions)
    /\ client_count' = Cardinality(DOMAIN clients \cup {client_id})
    /\ UNCHANGED reader
    /\ UNCHANGED <<processed_ch, trigger_event_ch, burst_complete_ch, data_pump,
                   trigger_pump, burst_pump, queue, ws_sent, handled, published,
                   fanned>>
    /\ UNCHANGED <<codecVars, procVars, devVars, webVars>>

\* ... and then, the lock released, the welcome is sent and the writer and
\* reader tasks are started.
send_welcome(client_id) ==
    /\ conn[client_id] = "inserted"
    /\ conn' = [conn EXCEPT ![client_id] = "open"]
    /\ queue' = [queue EXCEPT ![client_id] = Enqueue(@, Welcome(client_id))]
    /\ reader' = [reader EXCEPT ![client_id] = "running"]
    /\ UNCHANGED client_count
    /\ UNCHANGED <<processed_ch, trigger_event_ch, burst_complete_ch, data_pump,
                   trigger_pump, burst_pump, clients, ws_sent, handled, published,
                   fanned>>
    /\ UNCHANGED <<codecVars, procVars, devVars, webVars>>

\* The writer task: rx.recv() and ws_sender.send(msg)
sender_task_send(client_id) ==
    /\ conn[client_id] = "open"
    /\ queue[client_id] # <<>>
    /\ ws_sent' = [ws_sent EXCEPT ![client_id] = Append(@, Head(queue[client_id]))]
    /\ queue' = [queue EXCEPT ![client_id] = Tail(@)]
    /\ UNCHANGED <<processed_ch, trigger_event_ch, burst_complete_ch, data_pump,
                   trigger_pump, burst_pump, clients, conn, reader, client_count, handled, published,
                   fanned>>
    /\ UNCHANGED <<codecVars, procVars, devVars, webVars>>

\* The send fails: the writer leaves its loop, removes the client from the map
\* and ends, and the queue goes with it.
sender_task_fail(client_id) ==
    /\ conn[client_id] = "open"
    /\ queue[client_id] # <<>>
    /\ conn' = [conn EXCEPT ![client_id] = "closed"]
    /\ clients' = MapRemove(clients, client_id)
    /\ client_count' = Cardinality(DOMAIN clients \ {client_id})
    /\ queue' = [queue EXCEPT ![client_id] = <<>>]
    /\ UNCHANGED reader
    /\ UNCHANGED <<processed_ch, trigger_event_ch, burst_complete_ch, data_pump,
                   trigger_pump, burst_pump, ws_sent, handled, published, fanned>>
    /\ UNCHANGED <<codecVars, procVars, devVars, webVars>>

\* The reader task: a Close frame, a read error or the end of the stream ends
\* it, and with it handle_connection; the writer task runs on.
receiver_task_end(client_id) ==
    /\ reader[client_id] = "running"
    /\ reader' = [reader EXCEPT ![client_id] = "ended"]
    /\ UNCHANGED <<processed_ch, trigger_event_ch, burst_complete_ch, data_pump,
                   trigger_pump, burst_pump, clients, conn, client_count, queue,
                   ws_sent, handled, published, fanned>>
    /\ UNCHANGED <<codecVars, procVars, devVars, webVars>>

\* ---- handle_client_message
\* msg.channels is the "channels" array of the frame: <<list>>, or <<>> when the
\* frame has none.
Subscribe(channels) == [type |-> "subscribe", channels |-> <<channels>>]
SubscribeBare == [type |-> "subscribe", channels |-> <<>>]
Ping == [type |-> "ping", channels |-> <<>>]

\* The reader task outlives the writer task: a message may arrive for a client
\* that has left the map.
handle_client_message(client_id, msg) ==
    /\ reader[client_id] = "running"
    /\ NumHandled < MaxMessages
    /\ IF msg.type = "subscribe" /\ msg.channels # <<>> /\ client_id \in DOMAIN clients
       THEN LET subs == ApplyChannels(ResetSubscriptions(clients[client_id]),
                                      msg.channels[1])
            IN  /\ clients' = [clients EXCEPT ![client_id] = subs]
                /\ queue' = [queue EXCEPT ![client_id] =
                                 Enqueue(@, SubscriptionUpdated(client_id, subs))]
       ELSE IF msg.type = "ping" /\ client_id \in DOMAIN clients
       THEN /\ queue' = [queue EXCEPT ![client_id] = Enqueue(@, Pong)]
            /\ UNCHANGED clients
       ELSE UNCHANGED <<clients, queue>>
    /\ handled' = [handled EXCEPT ![client_id] = Append(@, msg)]
    /\ UNCHANGED <<processed_ch, trigger_event_ch, burst_complete_ch, data_pump,
                   trigger_pump, burst_pump, conn, reader, client_count, ws_sent, published, fanned>>
    /\ UNCHANGED <<codecVars, procVars, devVars, webVars>>

\* ---- WebSocketServer::new and the start of run
InitWs ==
    /\ processed_ch = EmptyChannel
    /\ trigger_event_ch = EmptyChannel
    /\ burst_complete_ch = EmptyChannel
    /\ data_pump = IdlePump
    /\ trigger_pump = IdlePump
    /\ burst_pump = IdlePump
    /\ clients = <<>>
    /\ conn = [c \in ClientIds |-> "none"]
    /\ reader = [c \in ClientIds |-> "none"]
    /\ client_count = 0
    /\ queue = [c \in ClientIds |-> <<>>]
    /\ ws_sent = [c \in ClientIds |-> <<>>]
    /\ handled = [c \in ClientIds |-> <<>>]
    /\ published = <<>>
    /\ fanned = <<>>

\* ---- a server whose burst pump is a full channel behind
\* The state after BufferSlots(burst_complete_capacity) TriggerEvent /
\* BufferTransferComplete pairs handled by the router while the burst pump
\* waited, one burst per millisecond up to the present: every slot of the
\* channel holds a burst the pump has not received yet, and the cache holds the
\* last max_cached_bursts of them.  Two clients are connected: c1 with the
\* default subscriptions, c2 subscribed to "data" alone.
BacklogLen == BufferSlots(burst_complete_capacity)

BacklogBurst(j) ==
    IF j > BacklogLen - max_cached_bursts
    THEN PrefillBurst("spread", j - (BacklogLen - max_cached_bursts))
    ELSE calculate_quality_summary(MarkComplete(
             NewBurst([timestamp |-> 1000 + j, channel |-> 0,
                       pre_samples |-> 10, post_samples |-> 20],
                      j - BacklogLen, j - BacklogLen)))

InitBacklogServer ==
    /\ InitCodec
    /\ packet_sequence = 0
    /\ trigger_burst_sequence = 0
    /\ current_trigger_timestamp = NoTs
    /\ current_trigger_burst = <<>>
    /\ completed_trigger_bursts = PrefillCache("spread")
    /\ completed_order = PrefillIds("spread")
    /\ now = 0
    /\ result = [ok |-> FALSE, value |-> <<>>]
    /\ lastPacket = <<>>
    /\ nAccepted = 0
    /\ nCalls = 0
    /\ nTriggers = 0
    /\ lifecycle = [phase |-> "none", packets |-> <<>>]
    /\ processed_ch = EmptyChannel
    /\ trigger_event_ch = EmptyChannel
    /\ burst_complete_ch = [pending |-> [j \in 1..BacklogLen |-> BacklogBurst(j)],
                            lagged  |-> FALSE]
    /\ data_pump = IdlePump
    /\ trigger_pump = IdlePump
    /\ burst_pump = IdlePump
    /\ clients = [c \in ClientIds |->
                     IF c = "c1" THEN DefaultSubscriptions
                     ELSE ApplyChannels(ResetSubscriptions(DefaultSubscriptions),
                                        <<"data">>)]
    /\ conn = [c \in ClientIds |-> "open"]
    /\ reader = [c \in ClientIds |-> "running"]
    /\ client_count = Cardinality(ClientIds)
    /\ queue = [c \in ClientIds |->
                   IF c = "c1" THEN <<Welcome(c)>>
                   ELSE <<Welcome(c), SubscriptionUpdated(c,
                              ApplyChannels(ResetSubscriptions(DefaultSubscriptions),
                                            <<"data">>))>>]
    /\ ws_sent = [c \in ClientIds |-> <<>>]
    /\ handled = [c \in ClientIds |->
                     IF c = "c1" THEN <<>> ELSE <<Subscribe(<<"data">>)>>]
    /\ published = [j \in 1..BacklogLen |-> BacklogBurst(j).burst_id]
    /\ fanned = <<>>

\* The events of one more burst: two Trigger packets, the second one with the
\* smaller device timestamp
BacklogEvents == {e \in TriggerEvents : e.timestamp = 100}
BacklogPackets == {[DataPacket(<<1, 2, 0, 0>>, Trigger(100)) EXCEPT !.timestamp_ms = t] :
                      t \in {7, 5}}

(***************************************************************************)
(*        Part IV: the device session, its supervisor, the control         *)
(*                                 surface                                 *)
(***************************************************************************)

\* ---- bounds of the session model
MaxRequests == 3
MaxReads == 2

\* ---- DeviceCommand, without ConfigureStream
Commands == {"Ping", "GetDeviceInfo", "SetModeContinuous", "SetModeTrigger",
             "StartStream", "StopStream", "RequestBufferedData"}

\* The command id handle_command hands to send_command
CommandId(cmd) ==
    CASE cmd = "Ping"                -> 1
      [] cmd = "GetDeviceInfo"       -> 3
      [] cmd = "SetModeContinuous"   -> 16
      [] cmd = "SetModeTrigger"      -> 17
      [] cmd = "StartStream"         -> 18
      [] cmd = "StopStream"          -> 19
      [] cmd = "RequestBufferedData" -> 66

\* ---- DeviceManager::new, AppState and the tasks main spawns
InitDev ==
    /\ connection = "none"
    /\ status = [connected |-> FALSE, device_id |-> <<>>, firmware_version |-> <<>>,
                 mode |-> "none", stream_active |-> FALSE]
    /\ self_seq = 0
    /\ trigger_active = FALSE
    /\ current_trigger = <<>>
    /\ command_rx = <<>>
    /\ events = <<>>
    /\ written = <<>>
    /\ handled_cmd = <<>>
    /\ session = "running"
    /\ nReads = 0
    /\ cmd_log = [enqueued |-> 0, handled |-> 0, offline |-> <<>>, after_offline |-> FALSE]
    /\ device_status = FALSE
    /\ event_log = <<>>
    /\ service = "up"
    /\ current_mode = "none"
    /\ in_flight = [c \in Commands |-> 0]
    /\ response = <<>>
    /\ nRequests = 0

\* ---- u8::wrapping_add
wrapping_add(x, y) == (x + y) % 256

\* ---- send_command: the sequence number is taken and advanced, the frame is
\* built, and then written if there is a connection.  wrote: the write went
\* through.
SendResult(wrote) ==
    IF connection # "open" THEN "no_connection"
    ELSE IF wrote THEN "ok" ELSE "write_error"

send_command(command, payload, wrote) ==
    /\ self_seq' = wrapping_add(self_seq, 1)
    /\ written' = IF SendResult(wrote) = "ok"
                  THEN Append(written, build_frame(command, self_seq, payload))
                  ELSE written

\* ---- handle_command
\* RequestBufferedData is sent on only in trigger mode
RequestAllowedMut(active) == TRUE
RequestAllowed(active) == active

\* Does handle_command call send_command for this command?
Sends(cmd) == cmd # "RequestBufferedData" \/ RequestAllowed(trigger_active)

\* <<trigger_active, current_trigger, status>> after the assignments that
\* handle_command makes before it calls send_command
LocalState(cmd) ==
    CASE cmd = "SetModeContinuous" ->
             <<FALSE, <<>>, [status EXCEPT !.mode = "continuous"]>>
      [] cmd = "SetModeTrigger" ->
             <<TRUE, <<>>, [status EXCEPT !.mode = "trigger"]>>
      [] cmd = "StartStream" ->
             <<trigger_active, current_trigger, [status EXCEPT !.stream_active = TRUE]>>
      [] cmd = "StopStream" ->
             <<trigger_active, current_trigger, [status EXCEPT !.stream_active = FALSE]>>
      [] OTHER -> <<trigger_active, current_trigger, status>>

\* History: the types of the events emitted so far, those the router has taken
\* and those still queued for it
EventStream == event_log \o [i \in 1..Len(events) |-> events[i].type]

\* History: the log as a command is enqueued, and as the oldest is handled.
\* offline runs beside command_rx: was there no connection at the enqueue?
Enqueues ==
    [cmd_log EXCEPT !.enqueued = @ + 1, !.offline = Append(@, connection # "open")]
Handled ==
    [cmd_log EXCEPT !.handled = @ + 1, !.offline = Tail(@),
                    !.after_offline = Head(cmd_log.offline)]

\* History: the command handled, what its write did, whether the router had
\* taken every event by then, and the burst the processor was gathering at
\* that moment (<<>> when none)
HandledCmd(cmd, res) ==
    [cmd |-> cmd, result |-> res, routed |-> events = <<>>,
     open_burst |-> IF current_trigger_burst = <<>> THEN <<>>
                    ELSE current_trigger_burst[1].burst_id]

\* command_rx.recv(): the oldest command, and what stays in the channel
command_rx_recvMut(q) == [value |-> q[Len(q)], rest |-> SubSeq(q, 1, Len(q) - 1)]
command_rx_recv(q) == [value |-> Head(q), rest |-> Tail(q)]

\* The select arm of run that takes one command off the queue
handle_command(wrote) ==
    /\ service = "up" /\ session = "running" /\ connection = "open"
    /\ command_rx # <<>>
    /\ LET cmd == command_rx_recv(command_rx).value
       IN  /\ command_rx' = command_rx_recv(command_rx).rest
           /\ trigger_active' = LocalState(cmd)[1]
           /\ current_trigger' = LocalState(cmd)[2]
           /\ status' = LocalState(cmd)[3]
           /\ IF Sends(cmd)
              THEN /\ send_command(CommandId(cmd), <<>>, wrote)
                   /\ handled_cmd' = <<HandledCmd(cmd, SendResult(wrote))>>
              ELSE /\ wrote
                   /\ handled_cmd' = <<HandledCmd(cmd, "skipped")>>
                   /\ UNCHANGED <<self_seq, written>>
    /\ cmd_log' = Handled
    /\ UNCHANGED <<connection, events, session, nReads, routerVars>>
    /\ UNCHANGED <<codecVars, procVars, wsVars, webVars>>

\* ---- run: the connect step.  try_connect succeeds, Connected is emitted and
\* the initial PING is sent; when its write fails run returns Err and the
\* supervisor sleeps before it calls run again.  (A failed try_connect sleeps
\* and tries again: no state changes.)
DeviceEventOf(type) == [type |-> type]

try_connect(wrote) ==
    /\ service = "up" /\ session = "running" /\ connection = "none"
    /\ connection' = "open"
    /\ status' = [status EXCEPT !.connected = TRUE]
    /\ events' = Append(events, DeviceEventOf("Connected"))
    /\ self_seq' = wrapping_add(self_seq, 1)
    /\ written' = IF wrote THEN Append(written, build_frame(1, self_seq, <<>>)) ELSE written
    /\ session' = IF wrote THEN "running" ELSE "backoff"
    /\ UNCHANGED <<trigger_active, current_trigger, command_rx, handled_cmd, nReads,
                   cmd_log, routerVars>>
    /\ UNCHANGED <<codecVars, procVars, wsVars, webVars>>

\* ---- main: the supervisor loop calls run again
supervisor_restart ==
    /\ service = "up" /\ session = "backoff"
    /\ session' = "running"
    /\ UNCHANGED <<connection, status, self_seq, trigger_active, current_trigger, command_rx,
                   events, written, handled_cmd, nReads, cmd_log, routerVars>>
    /\ UNCHANGED <<codecVars, procVars, wsVars, webVars>>

\* ---- handle_frame
u16_le(p, i) == p[i + 1] + 256 * p[i + 2]
u32_le(p, i) == p[i + 1] + 256 * p[i + 2] + 65536 * p[i + 3] + 16777216 * p[i + 4]

\* The label of a data frame
LabelAsTrigger == trigger_active /\ current_trigger # <<>>

DataTypeNow ==
    IF LabelAsTrigger THEN Trigger(current_trigger[1].timestamp) ELSE Continuous

\* What handle_frame does with one frame: the session's current_trigger and
\* status after it, and the events it emits, FrameReceived last.  The u64
\* device id is kept as its eight little-endian bytes.
HandleFrame(f) ==
    LET p == f.payload
        received == <<[type |-> "FrameReceived", frame |-> f]>>
        same(emitted) == [current_trigger |-> current_trigger, status |-> status,
                          emitted |-> emitted \o received]
    IN  CASE f.command_id = 129 ->
                 LET st == IF Len(p) >= 8
                           THEN [status EXCEPT !.device_id = <<SubSeq(p, 1, 8)>>]
                           ELSE status
                 IN  [current_trigger |-> current_trigger, status |-> st,
                      emitted |-> <<[type |-> "StatusUpdate", status |-> st]>> \o received]
          [] f.command_id = 131 ->
                 LET st == IF Len(p) >= 3
                           THEN [status EXCEPT !.firmware_version = <<u16_le(p, 1)>>]
                           ELSE status
                 IN  [current_trigger |-> current_trigger, status |-> st,
                      emitted |-> <<[type |-> "StatusUpdate", status |-> st]>> \o received]
          [] f.command_id = 64 ->
                 IF Len(p) >= 8
                 THEN same(<<[type |-> "DataPacket",
                              packet |-> [ timestamp_ms     |-> u32_le(p, 0),
                                           enabled_channels |-> u16_le(p, 4),
                                           sample_count     |-> u16_le(p, 6),
                                           sensor_data      |-> SubSeq(p, 9, Len(p)),
                                           data_type        |-> DataTypeNow ]]>>)
                 ELSE same(<<>>)
          [] f.command_id = 65 ->
                 IF Len(p) >= 14
                 THEN LET trigger_event == [ timestamp    |-> u32_le(p, 0),
                                             channel      |-> u16_le(p, 4),
                                             pre_samples  |-> u32_le(p, 6),
                                             post_samples |-> u32_le(p, 10) ]
                      IN  [current_trigger |-> <<trigger_event>>, status |-> status,
                           emitted |-> <<[type |-> "TriggerEvent",
                                          trigger_event |-> trigger_event]>> \o received]
                 ELSE same(<<>>)
          [] f.command_id = 79 -> same(<<DeviceEventOf("BufferTransferComplete")>>)
          [] f.command_id = 145 ->
                 IF Len(p) >= 2
                 THEN same(<<[type |-> "Error", error_type |-> p[1], error_code |-> p[2]]>>)
                 ELSE same(<<>>)
          [] f.command_id = 224 ->
                 IF Len(p) >= 2 /\ Len(p) >= 2 + p[2]
                 THEN same(<<[type |-> "LogMessage", level |-> p[1],
                              message |-> SubSeq(p, 3, 2 + p[2])]>>)
                 ELSE same(<<>>)
          [] OTHER -> same(<<>>)

\* ---- run: the select arm that reads.  One read brings one frame of the
\* device (Part I has the parsing), process_bytes hands it to handle_frame.
process_bytes(f) ==
    /\ service = "up" /\ session = "running" /\ connection = "open"
    /\ nReads < MaxReads
    /\ nReads' = nReads + 1
    /\ current_trigger' = HandleFrame(f).current_trigger
    /\ status' = HandleFrame(f).status
    /\ events' = events \o HandleFrame(f).emitted
    /\ UNCHANGED <<connection, self_seq, trigger_active, command_rx, written, handled_cmd,
                   session, cmd_log, routerVars>>
    /\ UNCHANGED <<codecVars, procVars, wsVars, webVars>>

\* The read fails: the connection is dropped and Disconnected is emitted
read_error ==
    /\ service = "up" /\ session = "running" /\ connection = "open"
    /\ nReads < MaxReads
    /\ nReads' = nReads + 1
    /\ connection' = "none"
    /\ status' = [status EXCEPT !.connected = FALSE]
    /\ events' = Append(events, DeviceEventOf("Disconnected"))
    /\ UNCHANGED <<self_seq, trigger_active, current_trigger, command_rx, written,
                   handled_cmd, session, cmd_log, routerVars>>
    /\ UNCHANGED <<codecVars, procVars, wsVars, webVars>>

\* ---- the frames a device sends
TimestampBytes == <<7, 0, 0, 0>>
DataFrameOf(shape) ==
    RawFrame(64, 0, TimestampBytes \o ToLeBytes(shape[1]) \o ToLeBytes(shape[2])
                        \o SensorData(count_ones(shape[1]) * shape[2] * 2 + shape[3],
                                      shape[4]))
TriggerFrameOf(ts) ==
    RawFrame(65, 0, <<ts, 0, 0, 0>> \o <<0, 0>> \o <<10, 0, 0, 0>> \o <<20, 0, 0, 0>>)
CompleteFrame == RawFrame(79, 0, <<>>)
PongFrame == RawFrame(129, 0, <<1, 0, 0, 0, 0, 0, 0, 0>>)
ShortDataFrame == RawFrame(64, 0, <<1, 2, 3>>)

\* ---- the control surface (web_server).  A handler that holds the mode lock
\* releases it before it enqueues its command: the lock section and the
\* enqueue are two steps, and handlers of other requests run between them.
ApiResponse(success, about) == [success |-> success, about |-> about]

Begin(cmd) ==
    /\ in_flight' = [in_flight EXCEPT ![cmd] = @ + 1]
    /\ nRequests' = nRequests + 1

set_continuous_mode ==
    /\ service = "up" /\ nRequests < MaxRequests
    /\ current_mode' = "continuous"
    /\ Begin("SetModeContinuous")
    /\ UNCHANGED <<service, response>>
    /\ UNCHANGED <<codecVars, procVars, wsVars, devVars>>

set_trigger_mode ==
    /\ service = "up" /\ nRequests < MaxRequests
    /\ current_mode' = "trigger"
    /\ Begin("SetModeTrigger")
    /\ UNCHANGED <<service, response>>
    /\ UNCHANGED <<codecVars, procVars, wsVars, devVars>>

\* The refusal outside trigger mode
RefusesMut(mode) == FALSE
Refuses(mode) == mode # "trigger"

request_trigger_data ==
    /\ service = "up" /\ nRequests < MaxRequests
    /\ IF Refuses(current_mode)
       THEN /\ response' = <<ApiResponse(FALSE, "Device not in trigger mode")>>
            /\ nRequests' = nRequests + 1
            /\ UNCHANGED in_flight
       ELSE /\ Begin("RequestBufferedData")
            /\ UNCHANGED response
    /\ UNCHANGED <<service, current_mode>>
    /\ UNCHANGED <<codecVars, procVars, wsVars, devVars>>

\* device_command_tx.send, and the response: the send fails only when the
\* session task is gone and its receiver with it
device_command_send(cmd) ==
    /\ service = "up" /\ in_flight[cmd] > 0
    /\ in_flight' = [in_flight EXCEPT ![cmd] = @ - 1]
    /\ IF session = "panicked"
       THEN /\ response' = <<ApiResponse(FALSE, "INTERNAL_SERVER_ERROR")>>
            /\ UNCHANGED <<command_rx, cmd_log>>
       ELSE /\ response' = <<ApiResponse(TRUE, cmd)>>
            /\ command_rx' = Append(command_rx, cmd)
            /\ cmd_log' = Enqueues
    /\ UNCHANGED <<service, current_mode, nRequests>>
    /\ UNCHANGED <<connection, status, self_seq, trigger_active, current_trigger, events,
                   written, handled_cmd, session, nReads, routerVars>>
    /\ UNCHANGED <<codecVars, procVars, wsVars>>

\* send_ping: no lock section
send_ping ==
    /\ service = "up" /\ nRequests < MaxRequests
    /\ nRequests' = nRequests + 1
    /\ IF session = "panicked"
       THEN /\ response' = <<ApiResponse(FALSE, "INTERNAL_SERVER_ERROR")>>
            /\ UNCHANGED <<command_rx, cmd_log>>
       ELSE /\ response' = <<ApiResponse(TRUE, "Ping")>>
            /\ command_rx' = Append(command_rx, "Ping")
            /\ cmd_log' = Enqueues
    /\ UNCHANGED <<service, current_mode, in_flight>>
    /\ UNCHANGED <<connection, status, self_seq, trigger_active, current_trigger, events,
                   written, handled_cmd, session, nReads, routerVars>>
    /\ UNCHANGED <<codecVars, procVars, wsVars>>

\* ---- the burst handlers of the control surface.  Each holds the processor
\* lock for its whole access.  The response keeps the request beside it.
BurstRequest(op, burst_id, format) == [op |-> op, burst_id |-> burst_id, format |-> format]

preview_trigger_burst(burst_id) ==
    /\ service = "up" /\ nRequests < MaxRequests
    /\ nRequests' = nRequests + 1
    /\ response' = <<IF get_trigger_burst(burst_id) = <<>>
                     THEN ApiResponse(FALSE, "NOT_FOUND")
                     ELSE ApiResponse(TRUE, "burst"),
                     BurstRequest("preview", burst_id, "")>>
    /\ UNCHANGED <<service, current_mode, in_flight>>
    /\ UNCHANGED <<codecVars, procVars, wsVars, devVars>>

\* saved: the file manager wrote the file
save_trigger_burst(burst_id, format, saved) ==
    /\ service = "up" /\ nRequests < MaxRequests
    /\ nRequests' = nRequests + 1
    /\ response' =
           <<IF format \notin {"json", "csv", "binary"}
             THEN ApiResponse(FALSE, "Invalid format")
             ELSE IF get_trigger_burst(burst_id) = <<>>
             THEN ApiResponse(FALSE, "Trigger burst not found")
             ELSE IF ~get_trigger_burst(burst_id)[1].is_complete
             THEN ApiResponse(FALSE, "Trigger burst is not complete yet")
             ELSE IF ~export_trigger_burst(burst_id, format).ok
             THEN ApiResponse(FALSE, "INTERNAL_SERVER_ERROR")
             ELSE IF saved THEN ApiResponse(TRUE, "saved")
             ELSE ApiResponse(FALSE, "INTERNAL_SERVER_ERROR"),
             BurstRequest("save", burst_id, format)>>
    /\ UNCHANGED <<service, current_mode, in_flight>>
    /\ UNCHANGED <<codecVars, procVars, wsVars, devVars>>

delete_trigger_burst(burst_id) ==
    /\ service = "up" /\ nRequests < MaxRequests
    /\ nRequests' = nRequests + 1
    /\ remove_trigger_burst_call(burst_id)
    /\ response' = <<IF Removed(burst_id)
                     THEN ApiResponse(TRUE, "Trigger burst deleted")
                     ELSE ApiResponse(FALSE, "NOT_FOUND"),
                     BurstRequest("delete", burst_id, "")>>
    /\ UNCHANGED <<service, current_mode, in_flight>>
    /\ UNCHANGED <<wsVars, devVars>>

\* ---- main: the event router's writes to the device-connected watch
DeviceStatusAfterMut(type, flag) == type # "FrameReceived" \/ flag
DeviceStatusAfter(type, flag) ==
    CASE type \in {"Connected", "DataPacket", "StatusUpdate"} -> TRUE
      [] type = "Disconnected" -> FALSE
      [] OTHER -> flag

\* ---- main: the event router takes one device event
route_event ==
    /\ service = "up" /\ events # <<>>
    /\ events' = Tail(events)
    /\ LET event == Head(events)
       IN  CASE event.type = "Connected" ->
                    reset_trigger_state_call /\ UNCHANGED wsVars
             [] event.type = "TriggerEvent" ->
                    \E dt \in {0, 1} : on_trigger_event_call(event.trigger_event, dt)
             [] event.type = "DataPacket" -> on_data_packet_call(event.packet)
             [] event.type = "BufferTransferComplete" -> on_buffer_transfer_complete_call
             [] OTHER -> UNCHANGED <<codecVars, procVars, wsVars>>
    /\ device_status' = DeviceStatusAfter(Head(events).type, device_status)
    /\ event_log' = Append(event_log, Head(events).type)
    /\ UNCHANGED <<connection, status, self_seq, trigger_active, current_trigger,
                   command_rx, written, handled_cmd, session, nReads, cmd_log>>
    /\ UNCHANGED webVars

\* ---- the session task ends in a panic.  The supervisor loop of main only
\* matches on what run returns: a panic unwinds through it and ends the
\* spawned task, and the DeviceManager is dropped with it.
session_panic ==
    /\ service = "up" /\ session = "running"
    /\ session' = "panicked"
    /\ connection' = "none"
    /\ UNCHANGED <<status, self_seq, trigger_active, current_trigger, command_rx,
                   events, written, handled_cmd, nReads, cmd_log, routerVars>>
    /\ UNCHANGED <<codecVars, procVars, wsVars, webVars>>

\* ---- main: the select on the task handles.  The device handle resolves
\* once its task has ended, and main shuts the service down.
main_select_device_handle ==
    /\ service = "up" /\ session = "panicked"
    /\ service' = "down"
    /\ UNCHANGED <<current_mode, in_flight, response, nRequests>>
    /\ UNCHANGED <<codecVars, procVars, wsVars, devVars>>

(***************************************************************************)
(*                           The specifications                            *)
(***************************************************************************)
Init == InitCodec /\ InitProc /\ InitWs /\ InitDev

InitCache == InitCodec /\ InitFullCache /\ InitWs /\ InitDev

InitBacklog == InitBacklogServer /\ InitDev

NextCodec ==
    \/ \E d \in Segments : DeviceWrite(d)
    \/ \E n \in 1..Len(wire) : feed_data(n)

NextProc ==
    \/ \E packet \in Packets : process_packet(packet)
    \/ \E e \in TriggerEvents, dt \in {0, 1} : start_trigger_burst(e, dt)
    \/ complete_trigger_burst
    \/ \E id \in BurstIds : remove_trigger_burst(id)
    \/ reset_trigger_state
    \/ Tick

NextCache ==
    \/ \E packet \in CachePackets : process_packet(packet)
    \/ \E e \in TriggerEvents, dt \in {0, 1} : start_trigger_burst(e, dt)
    \/ complete_trigger_burst
    \/ \E id \in CacheDeletes : remove_trigger_burst(id)
    \/ reset_trigger_state
    \/ Tick

\* The packets of the data path: an accepted Continuous packet, an accepted
\* Trigger packet and a rejected one
FanPackets == {DataPacket(<<1, 2, 0, 0>>, dt) : dt \in {Continuous, Trigger(100)}}
                  \cup {DataPacket(<<0, 2, 4, 0>>, Continuous)}

\* One subscriber, its subscribe frames, and the data path
FilterMessages == {Subscribe(<<"continuous_only">>), Subscribe(<<"trigger_only">>),
                   Subscribe(<<"trigger_bursts">>),
                   Subscribe(<<"continuous_only", "trigger_only">>)}

NextFilter ==
    \/ \E packet \in FanPackets : on_data_packet(packet)
    \/ data_pump_recv
    \/ broadcast_data
    \/ handle_connection("c1")
    \/ send_welcome("c1")
    \/ \E msg \in FilterMessages : handle_client_message("c1", msg)
    \/ sender_task_send("c1")
    \/ sender_task_fail("c1")

\* Two subscribers of the default subscriptions and the data path
NextFanout ==
    \/ \E packet \in FanPackets : on_data_packet(packet)
    \/ data_pump_recv
    \/ broadcast_data
    \/ \E c \in ClientIds : handle_connection(c)
    \/ \E c \in ClientIds : send_welcome(c)
    \/ \E c \in ClientIds : sender_task_send(c)
    \/ \E c \in ClientIds : sender_task_fail(c)

\* Two clients and their messages, no device event
ClientMessages ==
    { Subscribe(<<>>), Subscribe(<<"data">>), Subscribe(<<"trigger_events">>),
      Subscribe(<<"trigger_bursts">>), Subscribe(<<"continuous_only">>),
      Subscribe(<<"trigger_only">>), Subscribe(<<"all">>), Subscribe(<<"other">>),
      Subscribe(<<"trigger_only", "continuous_only">>),
      Subscribe(<<"trigger_bursts", "data", "trigger_bursts">>),
      SubscribeBare, Ping }

NextSubscribe ==
    \/ \E c \in ClientIds : handle_connection(c)
    \/ \E c \in ClientIds : send_welcome(c)
    \/ \E c \in ClientIds, msg \in ClientMessages : handle_client_message(c, msg)
    \/ \E c \in ClientIds : sender_task_send(c)
    \/ \E c \in ClientIds : sender_task_fail(c)

\* The burst path, from the router through the burst pump
NextBacklog ==
    \/ \E e \in BacklogEvents : on_trigger_event(e, 0)
    \/ \E packet \in BacklogPackets : on_data_packet(packet)
    \/ on_buffer_transfer_complete
    \/ burst_pump_recv
    \/ broadcast_trigger_burst_complete

\* Subscribers that come and go while data packets are fanned out
NextDisconnect ==
    \/ \E packet \in FanPackets : on_data_packet(packet)
    \/ data_pump_recv
    \/ broadcast_data
    \/ \E c \in ClientIds : handle_connection(c)
    \/ \E c \in ClientIds : send_welcome(c)
    \/ \E c \in ClientIds : handle_client_message(c, Ping)
    \/ \E c \in ClientIds : receiver_task_end(c)
    \/ \E c \in ClientIds : sender_task_send(c)
    \/ \E c \in ClientIds : sender_task_fail(c)

\* The runtime schedules every spawned task that can take a step: the data
\* pump, the fan-out, the welcome and each writer task.  Nothing obliges a
\* peer to connect, to send or to close, nor the device to emit.
FairServer ==
    /\ WF_vars(data_pump_recv)
    /\ WF_vars(broadcast_data)
    /\ \A c \in ClientIds : WF_vars(send_welcome(c))
    /\ \A c \in ClientIds : WF_vars(sender_task_send(c) \/ sender_task_fail(c))

\* The session with the control surface that commands it
SessionFrames == {DataFrameOf(<<1, 2, 0, 0>>), ShortDataFrame, TriggerFrameOf(100),
                  CompleteFrame, PongFrame}
NextSession ==
    \/ set_continuous_mode
    \/ set_trigger_mode
    \/ request_trigger_data
    \/ send_ping
    \/ \E cmd \in Commands : device_command_send(cmd)
    \/ \E wrote \in BOOLEAN : try_connect(wrote)
    \/ supervisor_restart
    \/ \E wrote \in BOOLEAN : handle_command(wrote)
    \/ \E f \in SessionFrames : process_bytes(f)
    \/ read_error

\* The mode requests of the control surface and the session that handles them
NextControl ==
    \/ set_continuous_mode
    \/ set_trigger_mode
    \/ request_trigger_data
    \/ \E cmd \in Commands : device_command_send(cmd)
    \/ \E wrote \in BOOLEAN : try_connect(wrote)
    \/ supervisor_restart
    \/ \E wrote \in BOOLEAN : handle_command(wrote)

\* Mode switches while a burst is gathered: the control surface, the session,
\* the event router and the processor
ModeFrames == {DataFrameOf(<<1, 2, 0, 0>>), TriggerFrameOf(100), CompleteFrame}
NextMode ==
    \/ set_continuous_mode
    \/ set_trigger_mode
    \/ \E cmd \in Commands : device_command_send(cmd)
    \/ \E wrote \in BOOLEAN : try_connect(wrote)
    \/ supervisor_restart
    \/ \E wrote \in BOOLEAN : handle_command(wrote)
    \/ \E f \in ModeFrames : process_bytes(f)
    \/ route_event

\* The session task under its supervisor
NextSupervise ==
    \/ send_ping
    \/ \E wrote \in BOOLEAN : try_connect(wrote)
    \/ supervisor_restart
    \/ \E wrote \in BOOLEAN : handle_command(wrote)
    \/ read_error
    \/ session_panic
    \/ main_select_device_handle

\* The runtime runs the supervisor loop and main's select when they can step
FairSupervisor ==
    /\ WF_vars(supervisor_restart)
    /\ WF_vars(main_select_device_handle)

\* The event router with the processor: device events and reconnects
NextRouter ==
    \/ \E packet \in FanPackets : on_data_packet(packet)
    \/ \E e \in TriggerEvents, dt \in {0, 1} : on_trigger_event(e, dt)
    \/ on_buffer_transfer_complete
    \/ reset_trigger_state
    \/ Tick

\* The burst requests of the control surface on a full cache, while a further
\* burst is gathered and completed
SaveFormats == {"json", "xml"}
NextBursts ==
    \/ \E id \in CacheDeletes : preview_trigger_burst(id)
    \/ \E id \in CacheDeletes, format \in SaveFormats, saved \in BOOLEAN :
           save_trigger_burst(id, format, saved)
    \/ \E id \in CacheDeletes : delete_trigger_burst(id)
    \/ \E e \in TriggerEvents : start_trigger_burst(e, 0)
    \/ complete_trigger_burst

\* The session's event stream and the router that takes it
EventFrames == {DataFrameOf(<<1, 2, 0, 0>>), TriggerFrameOf(100), CompleteFrame, PongFrame}
NextEvents ==
    \/ \E wrote \in BOOLEAN : try_connect(wrote)
    \/ supervisor_restart
    \/ \E f \in EventFrames : process_bytes(f)
    \/ read_error
    \/ route_event

\* The command channel across disconnects
NextQueue ==
    \/ send_ping
    \/ set_trigger_mode
    \/ \E cmd \in Commands : device_command_send(cmd)
    \/ \E wrote \in BOOLEAN : try_connect(wrote)
    \/ supervisor_restart
    \/ \E wrote \in BOOLEAN : handle_command(wrote)
    \/ read_error

\* The router and the websocket server, whole
NextServer ==
    \/ \E packet \in Packets : on_data_packet(packet)
    \/ \E e \in TriggerEvents, dt \in {0, 1} : on_trigger_event(e, dt)
    \/ on_buffer_transfer_complete
    \/ data_pump_recv
    \/ broadcast_data
    \/ trigger_pump_recv
    \/ broadcast_trigger_event
    \/ burst_pump_recv
    \/ broadcast_trigger_burst_complete
    \/ \E c \in ClientIds : handle_connection(c)
    \/ \E c \in ClientIds : send_welcome(c)
    \/ \E c \in ClientIds, msg \in ClientMessages : handle_client_message(c, msg)
    \/ \E c \in ClientIds : receiver_task_end(c)
    \/ \E c \in ClientIds : sender_task_send(c)
    \/ \E c \in ClientIds : sender_task_fail(c)

Next ==
    \/ NextCodec \/ NextProc \/ NextServer \/ NextSession
    \/ route_event \/ session_panic \/ main_select_device_handle

\* The codec alone, the processor alone, and (Spec) all parts side by side.
SpecCodec == Init /\ [][NextCodec]_vars
SpecProc == Init /\ [][NextProc]_vars
\* The processor alone, from a full cache
SpecCache == InitCache /\ [][NextCache]_vars
\* The websocket server: one subscriber and its filters, two subscribers side
\* by side, and the subscription control alone
SpecFilter == Init /\ [][NextFilter]_vars
SpecFanout == Init /\ [][NextFanout]_vars
SpecSubscribe == Init /\ [][NextSubscribe]_vars
\* The burst path, from a burst channel with every slot taken
SpecBacklog == InitBacklog /\ [][NextBacklog]_vars
\* Subscribers that come and go, under the runtime's scheduling
SpecDisconnect == Init /\ [][NextDisconnect]_vars /\ FairServer
\* The session with the control surface
SpecSession == Init /\ [][NextSession]_vars
\* The mode requests and the session
SpecControl == Init /\ [][NextControl]_vars
\* Mode switches while a burst is gathered
SpecMode == Init /\ [][NextMode]_vars
\* The session task under its supervisor, with the runtime's scheduling
SpecSupervise == Init /\ [][NextSupervise]_vars /\ FairSupervisor
\* The event router with the processor
SpecRouter == Init /\ [][NextRouter]_vars
SpecBursts == InitCache /\ [][NextBursts]_vars
SpecEvents == Init /\ [][NextEvents]_vars
SpecQueue == Init /\ [][NextQueue]_vars
Spec == Init /\ [][Next]_vars


(***************************************************************************)
(*                     Properties of the frame codec                       *)
(*                       (checked under SpecCodec)                         *)
(***************************************************************************)

\* The first segment written was read whole by the first feed_data call.
FirstFedWhole ==
    /\ Len(sent) >= 1
    /\ ncalls = 1
    /\ nfed = Len(sent[1].bytes)

\* C1 -- Codec round-trip: when build_frame(cmd, seq, payload) is fed to a fresh
\* parser in one feed_data call, the call returns exactly one frame, whose
\* command_id, sequence and payload are the inputs, and leaves the buffer empty.
C1_RoundTrip ==
    (FirstFedWhole /\ sent[1].kind = "valid")
        => (out = <<FrameOf(sent[1])>> /\ buf = <<>> /\ ~panicked)

\* A frame whose payload holds a HEAD pair has made the round trip.
C1_Witness ==
    /\ FirstFedWhole
    /\ sent[1].kind = "valid"
    /\ HasHead(sent[1].payload)
    /\ out = <<FrameOf(sent[1])>>

\* C2 -- CRC mismatch recovers: a frame with a wrong CRC field followed by a
\* valid frame, fed to a fresh parser in one feed_data call: the call returns
\* exactly the valid frame.  (The code returns no frame: try_parse_one answers
\* None after the mismatch, and parse_frames leaves its loop on None.)
C2_CrcMismatchRecovers ==
    ( /\ Len(sent) = 2
      /\ sent[1].kind = "badcrc"
      /\ sent[2].kind = "valid"
      /\ ncalls = 1
      /\ nfed = Len(sent[1].bytes) + Len(sent[2].bytes) )
        => out = <<FrameOf(sent[2])>>

\* C3 -- The decoder never panics: no feed_data call reads an index outside the
\* buffer (the tail bytes, cmd, seq, the payload slice, the CRC bytes, advance),
\* whatever was written and however it was split into reads.
C3_NeverPanics == ~panicked

\* A header with LEN < 4 went through the tail, cmd/seq and CRC reads.
C3_Witness ==
    /\ ~panicked
    /\ \E i \in 1..Len(log) :
           log[i].len >= 0 /\ log[i].len < 4 /\ log[i].kind \in {"frame", "crc"}

\* The buffer holds the start of a frame whose rest has not arrived.
Waiting(b) ==
    \/ Len(b) < MinFrameLen
    \/ /\ b[1] = FRAME_HEAD[1] /\ b[2] = FRAME_HEAD[2]
       /\ Len(b) < 4 + FromLeBytes(b[3], b[4]) + 2

\* C4 -- Resync progress: every feed_data call returns a frame, or shrinks the
\* buffer, or leaves it as it is only because it waits for the rest of a frame;
\* and every failed attempt (no HEAD at the front, tail or CRC mismatch)
\* discards at least one byte.  (The code discards nothing when the buffer
\* holds no HEAD pair at all.)
C4_ResyncProgress ==
    ncalls >= 1 =>
        /\ \/ Len(out) >= 1
           \/ Len(buf) < lenBefore
           \/ Len(buf) = lenBefore /\ Waiting(buf)
        /\ \A i \in 1..Len(log) :
               log[i].kind \in {"nohead", "short", "badhead", "tail", "crc"}
                   => log[i].after < log[i].before

\* C5 as printed -- the framing example with LEN = 05 00: one frame
\* (cmd 1, seq 2, payload AB CD) is returned.
C5_HappyPathAsPrinted ==
    (FirstFedWhole /\ sent[1].kind = "raw" /\ sent[1].bytes = ExampleLen5)
        => out = <<RawFrame(1, 2, <<171, 205>>)>>

\* C5 -- Framing happy path, with the LEN the wire format gives the frame
\* (CMD + SEQ + 2 payload bytes + CRC = 6): feeding a fresh parser
\* AA 55 06 00 01 02 AB CD 1E BD 55 AA, 0xBD1E being CRC-16/MODBUS of
\* 01 02 AB CD, returns exactly the frame cmd 1, seq 2, payload AB CD.
C5_HappyPath ==
    (FirstFedWhole /\ sent[1].kind = "raw" /\ sent[1].bytes = ExampleLen6)
        => (out = <<RawFrame(1, 2, <<171, 205>>)>> /\ buf = <<>>)

C5_Witness ==
    /\ FirstFedWhole
    /\ sent[1].kind = "raw"
    /\ sent[1].bytes = ExampleLen6
    /\ Len(out) = 1

\* Garbage with no HEAD pair in it, then a valid frame.
GarbageThenFrame ==
    /\ Len(sent) = 2
    /\ sent[1].kind = "raw"
    /\ ~HasHead(sent[1].bytes)
    /\ sent[2].kind = "valid"

\* C6 -- Leading garbage and split writes: for garbage with no HEAD pair followed
\* by a valid frame, read in two or more feed_data calls split anywhere, no
\* call returns a frame before the frame's last byte is fed, and the call that
\* feeds the last byte returns exactly that frame and leaves the buffer empty.
C6_GarbageSplit ==
    GarbageThenFrame =>
        LET total == Len(sent[1].bytes) + Len(sent[2].bytes)
        IN  /\ nfed < total => nframes = 0
            /\ (nfed = total /\ ncalls = 2)
                   => (out = <<FrameOf(sent[2])>> /\ nframes = 1 /\ buf = <<>>)

\* The frame came out of the call that fed its last byte, the second or a
\* later one, after a call that had left garbage and a part of the frame in
\* the buffer.
C6_Witness ==
    /\ GarbageThenFrame
    /\ nfed = Len(sent[1].bytes) + Len(sent[2].bytes)
    /\ ncalls = 2
    /\ sent[2].payload # <<>>
    /\ lenBefore > Len(sent[2].bytes)
    /\ out = <<FrameOf(sent[2])>>


(***************************************************************************)
(*                    Properties of the DataProcessor                      *)
(*                       (checked under SpecProc)                          *)
(***************************************************************************)

\* C7 -- Decoder sequence: the k-th ProcessedData a DataProcessor returns
\* carries sequence = k, whatever packets were rejected in between.  (The code
\* counts every call, rejected ones included.)
C7_SequenceIsRank ==
    result.ok => result.value[1].sequence = nAccepted

\* The number of bits set in a 16-bit mask
Popcount(mask) == Cardinality({bit \in 0..15 : (mask \div (2 ^ bit)) % 2 = 1})

\* C8 -- Decode length law: process_packet accepts a packet exactly when
\* popcount(enabled_channels) > 0 and
\* len(sensor_data) = popcount(enabled_channels) * sample_count * 2, and the
\* data of an accepted packet has popcount(enabled_channels) * sample_count
\* elements.
C8_LengthLaw ==
    lastPacket # <<>> =>
        LET packet == lastPacket[1]
            pc     == Popcount(packet.enabled_channels)
        IN  /\ result.ok <=> ( /\ pc > 0
                               /\ Len(packet.sensor_data) = pc * packet.sample_count * 2 )
            /\ result.ok => Len(result.value[1].data) = pc * packet.sample_count

\* A packet with more than five samples, which the filter has gone through,
\* was accepted.
C8_Witness ==
    /\ lastPacket # <<>>
    /\ result.ok
    /\ lastPacket[1].sample_count = 3
    /\ Len(result.value[1].data) = 6

\* The k-th signed 16-bit little-endian sample of sensor_data
RawSample(packet, k) ==
    LET v == packet.sensor_data[2 * k - 1] + 256 * packet.sensor_data[2 * k]
    IN  IF v >= 32768 THEN v - 65536 ELSE v

\* C9 -- Sample pass-through: the data of an accepted packet are the signed
\* 16-bit samples of sensor_data, channel after channel, unchanged.  (The code
\* maps each sample to a voltage and averages it with its neighbours; data is
\* held in 1/Den units, so "unchanged" is "Den times the raw sample".)
C9_PassThrough ==
    (lastPacket # <<>> /\ result.ok) =>
        \A k \in 1..Len(result.value[1].data) :
            /\ result.value[1].data[k] % Den = 0
            /\ result.value[1].data[k] \div Den = RawSample(lastPacket[1], k)

RECURSIVE SumLen(_)
SumLen(packets) ==
    IF packets = <<>> THEN 0 ELSE Len(packets[1].data) + SumLen(Tail(packets))

BurstTotalOk(burst) == burst.total_samples = SumLen(burst.data_packets)

\* C10 -- Burst total law: in every reachable state the current burst and every
\* burst of the completed cache have total_samples equal to the sum of
\* len(p.data) over their data_packets.
C10_BurstTotal ==
    /\ \A i \in 1..Len(current_trigger_burst) : BurstTotalOk(current_trigger_burst[i])
    /\ \A id \in DOMAIN completed_trigger_bursts :
           BurstTotalOk(completed_trigger_bursts[id])

\* A burst that collected two packets with samples is in the cache.
C10_Witness ==
    \E id \in DOMAIN completed_trigger_bursts :
        /\ Len(completed_trigger_bursts[id].data_packets) = 2
        /\ completed_trigger_bursts[id].total_samples > 2


(***************************************************************************)
(*                    Properties of the burst cache                        *)
(***************************************************************************)

\* C11 -- Burst cache bound: whatever trigger events, data packets,
\* buffer-transfer completions, deletes and resets happen, the completed cache
\* never holds more than max_cached_bursts bursts.
C11_CacheBound ==
    Cardinality(DOMAIN completed_trigger_bursts) <= max_cached_bursts

\* The cache is full again after a burst was completed into the full cache:
\* none of the deletes tried has taken a burst away, and a new burst is there.
C11_Witness ==
    /\ Cardinality(DOMAIN completed_trigger_bursts) = max_cached_bursts
    /\ BurstId(3, 3 - max_cached_bursts) \in DOMAIN completed_trigger_bursts
    /\ \E ts \in TriggerTimestamps, ms \in 0..MaxNow :
           /\ BurstId(ts, ms) \in DOMAIN completed_trigger_bursts
           /\ completed_trigger_bursts[BurstId(ts, ms)].created_at > 0

\* A step of complete_trigger_burst that closes the current burst
CompletesBurst ==
    /\ current_trigger_burst # <<>>
    /\ current_trigger_burst' = <<>>
    /\ completed_order' # completed_order

\* C12 -- Cache eviction order: when completing a burst makes the cache exceed
\* max_cached_bursts, exactly one burst leaves the cache, the one completed
\* first, and the burst just completed stays.  (The code evicts a burst of the
\* smallest created_at, a millisecond reading of the clock at the trigger
\* event: of several bursts begun in one millisecond it evicts any.)
C12_EvictsOldest ==
    [][ ( /\ CompletesBurst
          /\ Cardinality(DOMAIN completed_trigger_bursts) = max_cached_bursts
          /\ current_trigger_burst[1].burst_id \notin DOMAIN completed_trigger_bursts )
            => DOMAIN completed_trigger_bursts' =
                   (DOMAIN completed_trigger_bursts
                        \cup {current_trigger_burst[1].burst_id})
                       \ {completed_order[1]} ]_vars

\* The fields of a cached burst that are fixed at its completion
Frozen(burst) ==
    <<burst.quality_summary, burst.data_packets, burst.total_samples, burst.is_complete>>

\* C18 -- Completed bursts are frozen: no step changes the quality_summary,
\* data_packets, total_samples or is_complete stored under a burst_id that stays
\* in the cache.  (A burst completed under the burst_id of a cached one, the same
\* trigger timestamp begun in the same millisecond, replaces it.)
C18_CompletedFrozen ==
    [][ \A id \in DOMAIN completed_trigger_bursts \cap DOMAIN completed_trigger_bursts' :
            Frozen(completed_trigger_bursts'[id]) = Frozen(completed_trigger_bursts[id])
      ]_vars

\* C13 -- Trigger burst lifecycle: a TriggerEvent, then n accepted Trigger
\* packets, then BufferTransferComplete, with no other trigger event and no
\* reset in between: the step of BufferTransferComplete puts exactly one burst
\* into the cache, with is_complete = true, with exactly those n packets in
\* arrival order as data_packets and their summed sample counts as
\* total_samples, and clears the current burst.
C13_Lifecycle ==
    [][ (lifecycle.phase = "open" /\ lifecycle'.phase = "closed") =>
          /\ current_trigger_burst' = <<>>
          /\ DOMAIN completed_trigger_bursts \subseteq DOMAIN completed_trigger_bursts'
          /\ \E id \in DOMAIN completed_trigger_bursts' :
                 /\ \A x \in DOMAIN completed_trigger_bursts' \ {id} :
                        /\ x \in DOMAIN completed_trigger_bursts
                        /\ completed_trigger_bursts'[x] = completed_trigger_bursts[x]
                 /\ completed_trigger_bursts'[id].burst_id = id
                 /\ completed_trigger_bursts'[id].is_complete
                 /\ completed_trigger_bursts'[id].data_packets = lifecycle.packets
                 /\ completed_trigger_bursts'[id].total_samples = SumLen(lifecycle.packets)
      ]_vars

\* A burst of two packets went through the lifecycle.
C13_Witness ==
    /\ lifecycle.phase = "closed"
    /\ current_trigger_burst = <<>>
    /\ \E id \in DOMAIN completed_trigger_bursts :
           /\ completed_trigger_bursts[id].is_complete
           /\ Len(completed_trigger_bursts[id].data_packets) = 2
           /\ completed_trigger_bursts[id].data_packets[1].sequence
                  < completed_trigger_bursts[id].data_packets[2].sequence


(***************************************************************************)
(*                  Properties of the websocket server                     *)
(***************************************************************************)

\* The frames enqueued to a client so far that it still has: those its writer
\* sent, then those waiting in its queue.
History(c) == ws_sent[c] \o queue[c]

IsData(frame) == frame.type = "data"
IsAck(frame) == frame.type = "subscription_updated"

\* The flags a channel list asks for, read off the list as a set of names.
Implied(channels) ==
    LET names == {channels[i] : i \in 1..Len(channels)}
    IN  [ data_stream     |-> names \cap {"data", "continuous_only", "trigger_only",
                                          "all"} # {},
          trigger_events  |-> names \cap {"trigger_events", "all"} # {},
          trigger_bursts  |-> names \cap {"trigger_bursts", "all"} # {},
          continuous_only |-> "continuous_only" \in names,
          trigger_only    |-> "trigger_only" \in names ]

\* The step handles a subscribe frame with a channels array for client c,
\* which is in the map.
HandlesSubscribe(c) ==
    /\ handled'[c] # handled[c]
    /\ c \in DOMAIN clients
    /\ LET msg == handled'[c][Len(handled'[c])]
       IN  msg.type = "subscribe" /\ msg.channels # <<>>

\* C20 (checked under SpecSubscribe): a step that handles a subscribe frame
\* with a channels array leaves the client with exactly the flags its channel
\* list asks for, whatever its flags were before, and adds exactly one frame to
\* the client's queue, the subscription_updated carrying those flags.
C20_SubscribeResets ==
    [][\A c \in ClientIds :
          HandlesSubscribe(c) =>
              LET channels == handled'[c][Len(handled'[c])].channels[1]
              IN  /\ clients'[c] = Implied(channels)
                  /\ queue'[c] = Append(queue[c],
                                        SubscriptionUpdated(c, Implied(channels)))
                  /\ ws_sent'[c] = ws_sent[c]]_vars

\* A client subscribed to everything and then to continuous_only: two
\* acknowledgements, and of the first subscription nothing is left.
C20_Witness ==
    \E c \in DOMAIN clients :
        /\ handled[c] = <<Subscribe(<<"all">>), Subscribe(<<"continuous_only">>)>>
        /\ clients[c] = Implied(<<"continuous_only">>)
        /\ ~clients[c].trigger_events
        /\ Len(SelectSeq(History(c), IsAck)) = 2

\* The flags let a data frame of this source through.
Allows(subs, source) ==
    /\ subs.data_stream
    /\ ~(subs.continuous_only /\ source = "Trigger")
    /\ ~(subs.trigger_only /\ source = "Continuous")

\* C15 (checked under SpecFilter): in the frames enqueued to a subscriber,
\* every data frame that follows a subscription_updated is let through by the
\* flags of the last subscription_updated before it: none at all without
\* data_stream, no Trigger frame under continuous_only, no Continuous frame
\* under trigger_only.
C15_FilterCorrect ==
    \A c \in ClientIds :
        LET h == History(c)
        IN  \A i \in 1..Len(h), j \in 1..Len(h) :
                ( /\ i < j
                  /\ IsAck(h[i])
                  /\ IsData(h[j])
                  /\ \A k \in (i + 1)..(j - 1) : ~IsAck(h[k]) )
                => Allows(h[i].subscriptions, h[j].source)

\* A continuous_only subscriber past whom a Trigger packet went: it was
\* acknowledged, then got the Continuous packet of sequence 1, and the Trigger
\* packet of sequence 2 has been broadcast without a frame for it.
C15_Witness ==
    \E c \in DOMAIN clients :
        LET h == History(c)
        IN  /\ Len(h) = 3
            /\ Len(handled[c]) = 1
            /\ IsAck(h[2]) /\ h[2].subscriptions.continuous_only
            /\ IsData(h[3]) /\ h[3].source = "Continuous" /\ h[3].sequence = 1
            /\ result.ok
            /\ result.value[1].source = "Trigger" /\ result.value[1].sequence = 2
            /\ processed_ch.pending = <<>>
            /\ data_pump = IdlePump

\* The data frames among the frames enqueued to a client
DataFrames(c) == SelectSeq(History(c), IsData)

\* C19 (checked under SpecFanout): for every subscriber, the data frames its
\* writer sent followed by the data frames waiting in its queue carry strictly
\* increasing sequence numbers: they were enqueued in processing order and the
\* writer sends from the head of the queue.
C19_Fifo ==
    \A c \in ClientIds :
        \A i \in 1..(Len(DataFrames(c)) - 1) :
            DataFrames(c)[i].sequence < DataFrames(c)[i + 1].sequence

\* A subscriber whose writer has sent the data frame of sequence 1 while the
\* data frame of sequence 2 waits in its queue.
C19_Witness ==
    \E c \in DOMAIN clients :
        /\ \E i \in 1..Len(ws_sent[c]) :
               IsData(ws_sent[c][i]) /\ ws_sent[c][i].sequence = 1
        /\ \E i \in 1..Len(queue[c]) :
               IsData(queue[c][i]) /\ queue[c][i].sequence = 2

\* C16 (checked under SpecFanout): whenever the data pump holds an event to
\* broadcast, broadcast_data can run to its end, whatever the length of any
\* subscriber's queue and however far behind any writer task is: no subscriber
\* can hold up the enqueue to the others.
C16_FanoutIsolation ==
    data_pump.holding # <<>> => ENABLED broadcast_data

\* The writer of one subscriber has sent nothing, its queue holds the welcome
\* and two data frames, and meanwhile the writer of the other subscriber has
\* sent both data frames on.
C16_Witness ==
    \E c \in DOMAIN clients, d \in DOMAIN clients :
        /\ c # d
        /\ ws_sent[c] = <<>>
        /\ Len(queue[c]) = 3
        /\ DataFrames(c) = DataFrames(d)
        /\ Len(DataFrames(c)) = 2
        /\ queue[d] = <<>>

\* C17 (checked under SpecFanout): no subscriber's queue ever holds more than
\* AnyCapacity frames, AnyCapacity standing for the fixed capacity of the
\* queue, whichever it is.
C17_BoundedQueue ==
    \A c \in ClientIds : Len(queue[c]) <= AnyCapacity

IsBurstComplete(frame) == frame.type = "trigger_burst_complete"

\* The burst_ids of the trigger_burst_complete frames enqueued to a client
BurstFrames(c) ==
    LET frames == SelectSeq(History(c), IsBurstComplete)
    IN  [i \in 1..Len(frames) |-> frames[i].burst_id]

\* C14 (checked under SpecBacklog): every burst the router completed and
\* published has been broadcast, or is on its way: the burst pump is running
\* and the burst is in its hands or in the channel.  The broadcasts happened in
\* the order of completion, and each one enqueued exactly one frame to every
\* subscriber that had trigger_bursts set and none to the others.
C14_BurstDelivered ==
    /\ burst_pump.alive
    /\ Len(published) = Len(fanned) + Len(burst_pump.holding)
                            + Len(burst_complete_ch.pending)
    /\ \A i \in 1..Len(fanned) : fanned[i].burst_id = published[i]
    /\ \A c \in DOMAIN clients :
           BurstFrames(c) =
               LET mine == SelectSeq(fanned, LAMBDA f : c \in f.subscribers)
               IN  [i \in 1..Len(mine) |-> mine[i].burst_id]
    /\ \A i \in 1..Len(fanned) :
           fanned[i].subscribers = {c \in DOMAIN clients : clients[c].trigger_bursts}

(***************************************************************************)
(*                     Further properties of the bursts                    *)
(***************************************************************************)

\* A step of start_trigger_burst
StartsBurst == nTriggers' = nTriggers + 1

\* C27 (checked under SpecCache): the burst_id given to a burst by
\* start_trigger_burst is the burst_id of no other burst the processor holds,
\* neither of a cached burst nor of the current burst it replaces; and the
\* burst that complete_trigger_burst puts into the cache goes under a burst_id
\* that was not in the cache.
C27_BurstIdUnique ==
    [][ /\ StartsBurst =>
            /\ current_trigger_burst'[1].burst_id \notin DOMAIN completed_trigger_bursts
            /\ current_trigger_burst # <<>> =>
                   current_trigger_burst'[1].burst_id # current_trigger_burst[1].burst_id
        /\ CompletesBurst =>
               current_trigger_burst[1].burst_id \notin DOMAIN completed_trigger_bursts
      ]_vars

(***************************************************************************)
(*              Further properties of the websocket server                 *)
(***************************************************************************)

SourceFilters == {"continuous_only", "trigger_only"}

\* Of the source filters in a channel list, the one applied last
LaterFilter(channels) ==
    LET at   == {i \in 1..Len(channels) : channels[i] \in SourceFilters}
        last == CHOOSE i \in at : \A j \in at : j <= i
    IN  channels[last]

NamesBothFilters(msg) ==
    /\ msg.type = "subscribe"
    /\ msg.channels # <<>>
    /\ SourceFilters \subseteq {msg.channels[1][i] : i \in 1..Len(msg.channels[1])}

\* A step of broadcast_data
BroadcastsData == data_pump.holding # <<>> /\ data_pump'.holding = <<>>

\* C21 (checked under SpecFilter): a subscriber whose last subscribe frame
\* names both continuous_only and trigger_only gets a frame from a broadcast
\* of a data event exactly if the event is of the source type of the filter
\* that comes later in the list.
C21_LaterFilterWins ==
    [][ \A c \in DOMAIN clients :
            ( /\ BroadcastsData
              /\ handled[c] # <<>>
              /\ NamesBothFilters(handled[c][Len(handled[c])]) )
            => LET channels == handled[c][Len(handled[c])].channels[1]
                   source   == IF LaterFilter(channels) = "trigger_only"
                               THEN "Trigger" ELSE "Continuous"
               IN  (queue'[c] # queue[c]) <=> (data_pump.holding[1].source = source)
      ]_vars


\* C26: once the reader task of a subscriber has seen its connection end, the
\* subscriber is eventually out of the registry and the client-count watch
\* holds the size of the registry.
C26_RemovedAfterDisconnect ==
    \A c \in ClientIds :
        (reader[c] = "ended") ~>
            (c \notin DOMAIN clients /\ client_count = Cardinality(DOMAIN clients))

(***************************************************************************)
(*                     Properties of the device session                    *)
(***************************************************************************)
\* The sequence number a written frame carries
SeqOf(frame) == frame[6]
WritesFrame == written' # written

\* C24: the session's sequence number advances by exactly one (modulo 256)
\* with every frame written and stays as it is when nothing was written, and
\* the frames on the wire carry consecutive sequence numbers modulo 256.
C24_SeqFollowsWrites ==
    [][ /\ self_seq' = IF WritesFrame THEN wrapping_add(self_seq, 1) ELSE self_seq
        /\ \A i \in 1..(Len(written') - 1) :
               SeqOf(written'[i + 1]) = wrapping_add(SeqOf(written'[i]), 1)
      ]_vars

\* The step is handle_command, of this command, and its write did this
Handles(cmds, results) ==
    /\ command_rx # <<>> /\ command_rx' = Tail(command_rx)
    /\ Head(command_rx) \in cmds
    /\ handled_cmd'[1].result \in results

ModeCommands == {"SetModeContinuous", "SetModeTrigger"}

\* C23: when the write of a mode frame fails, the session's mode state
\* (trigger_active, status.mode, current_trigger) is what it was before the
\* command.
C23_ModeRollback ==
    [][ Handles(ModeCommands, {"write_error", "no_connection"}) =>
            /\ trigger_active' = trigger_active
            /\ status'.mode = status.mode
            /\ current_trigger' = current_trigger
      ]_vars

\* C28: a RequestBufferedData command handled while the session is not in
\* trigger mode writes no frame and leaves the sequence number, the mode state
\* and the recorded trigger as they are.
C28_RequestOutsideTriggerIsNoOp ==
    [][ ( Handles({"RequestBufferedData"}, {"ok", "write_error", "no_connection", "skipped"})
          /\ ~trigger_active )
        => /\ written' = written
           /\ self_seq' = self_seq
           /\ trigger_active' = trigger_active
           /\ status' = status
           /\ current_trigger' = current_trigger
           /\ handled_cmd'[1].result = "skipped"
      ]_vars

\* The session has handled a RequestBufferedData outside trigger mode, after
\* frames were written
C28_Witness ==
    /\ handled_cmd # <<>>
    /\ handled_cmd[1].cmd = "RequestBufferedData"
    /\ handled_cmd[1].result = "skipped"
    /\ ~trigger_active
    /\ status.mode = "continuous"
    /\ Len(written) >= 2

\* The step emits a data packet: the event it appends
EmitsDataPacket ==
    /\ Len(events') = Len(events) + 2
    /\ events'[Len(events) + 1].type = "DataPacket"
EmittedPacket == events'[Len(events) + 1].packet

\* C29: a data frame received while the session is in trigger mode is emitted
\* with the Trigger label, and one received in continuous mode with the
\* Continuous label.
C29_LabelFollowsMode ==
    [][ EmitsDataPacket => (EmittedPacket.data_type.trigger <=> trigger_active) ]_vars

(***************************************************************************)
(*                    Properties of the control surface                    *)
(***************************************************************************)
\* The step is the lock section of request_trigger_data: a request that is
\* neither of the mode requests
RequestsTriggerData ==
    /\ nRequests' = nRequests + 1
    /\ in_flight'["SetModeContinuous"] = in_flight["SetModeContinuous"]
    /\ in_flight'["SetModeTrigger"] = in_flight["SetModeTrigger"]

Refusal == ApiResponse(FALSE, "Device not in trigger mode")

\* The step puts a RequestBufferedData on the session's queue
EnqueuesRequest ==
    /\ Len(command_rx') = Len(command_rx) + 1
    /\ command_rx'[Len(command_rx')] = "RequestBufferedData"

\* C22: request_trigger_data passes a RequestBufferedData on to the session if
\* and only if the control surface's mode is trigger when the request is
\* made; otherwise it answers with a refusal, enqueues nothing and changes no
\* state.  Only a request that was passed on is enqueued.
C22_RequestOnlyInTriggerMode ==
    [][ /\ RequestsTriggerData =>
               IF current_mode = "trigger"
               THEN /\ in_flight'["RequestBufferedData"] = in_flight["RequestBufferedData"] + 1
                    /\ response' = response
               ELSE /\ response' = <<Refusal>>
                    /\ in_flight' = in_flight
                    /\ UNCHANGED <<current_mode, service, devVars, procVars>>
        /\ in_flight'["RequestBufferedData"] = in_flight["RequestBufferedData"] - 1
               => EnqueuesRequest
        /\ EnqueuesRequest
               => in_flight'["RequestBufferedData"] = in_flight["RequestBufferedData"] - 1
        /\ in_flight'["RequestBufferedData"] > in_flight["RequestBufferedData"]
               => RequestsTriggerData /\ current_mode = "trigger"
      ]_vars

\* Of three requests one was refused and two were enqueued, the second of
\* them a request for the buffered data made in trigger mode
C22_Witness ==
    /\ nRequests = 3
    /\ \A c \in Commands : in_flight[c] = 0
    /\ command_rx = <<"SetModeTrigger", "RequestBufferedData">>
    /\ current_mode = "trigger"
    /\ response = <<ApiResponse(TRUE, "RequestBufferedData")>>

(***************************************************************************)
(*                     Properties of the mode switches                     *)
(***************************************************************************)
\* The session's last command was a mode command whose frame was written
\* while the processor was gathering a burst, every event before it routed
SwitchedDuringBurst ==
    /\ handled_cmd # <<>>
    /\ handled_cmd[1].routed
    /\ handled_cmd[1].cmd \in ModeCommands
    /\ handled_cmd[1].result = "ok"
    /\ handled_cmd[1].open_burst # <<>>

\* C30: the burst that was being gathered when a mode command was handled is
\* dropped: no later packet is appended to it and no later
\* BufferTransferComplete completes it into the cache.
C30_ResetOnModeSwitch ==
    [][ ( SwitchedDuringBurst /\ current_trigger_burst # <<>>
          /\ current_trigger_burst[1].burst_id = handled_cmd[1].open_burst )
        => /\ ~CompletesBurst
           /\ current_trigger_burst' # <<>> =>
                  current_trigger_burst'[1].data_packets = current_trigger_burst[1].data_packets
      ]_vars

(***************************************************************************)
(*                      Properties of the supervision                      *)
(***************************************************************************)
\* C25: whenever the session task has stopped running (run returned, or the
\* task panicked) the supervisor starts it again, and the service is never
\* terminated by it.
C25_SessionSupervised ==
    /\ [](service = "up")
    /\ (session # "running") ~> (session = "running")

(***************************************************************************)
(*                   Further properties of the processor                   *)
(***************************************************************************)
\* The step is a call of process_packet; the packet it was given
ProcessesPacket == nCalls' = nCalls + 1
GivenPacket == lastPacket'[1]
AcceptsPacket == nAccepted' = nAccepted + 1

\* C31: processing a Continuous packet leaves the current burst (its packets,
\* its total, its completion flag) and the completed cache as they are: it
\* neither appends to the burst nor closes it.
C31_ContinuousLeavesBurst ==
    [][ (ProcessesPacket /\ ~GivenPacket.data_type.trigger)
        => /\ current_trigger_burst' = current_trigger_burst
           /\ completed_trigger_bursts' = completed_trigger_bursts
      ]_vars

\* An accepted Continuous packet has been processed while a burst with a
\* packet in it was open
C31_Witness ==
    /\ current_trigger_burst # <<>>
    /\ Len(current_trigger_burst[1].data_packets) = 1
    /\ lastPacket # <<>> /\ ~lastPacket[1].data_type.trigger
    /\ result.ok

\* C32: an accepted Continuous packet clears current_trigger_timestamp and
\* sets the burst sequence to 0; an accepted Trigger packet of another
\* timestamp than the current one is emitted with sequence_in_burst 1, and
\* one of the current timestamp with the previous sequence_in_burst plus one.
C32_TriggerBookkeeping ==
    [][ (ProcessesPacket /\ AcceptsPacket) =>
            LET data_type == GivenPacket.data_type
                emitted   == result'.value[1]
            IN  IF ~data_type.trigger
                THEN /\ current_trigger_timestamp' = NoTs
                     /\ trigger_burst_sequence' = 0
                     /\ emitted.trigger_info = <<>>
                ELSE /\ current_trigger_timestamp' = data_type.trigger_timestamp
                     /\ trigger_burst_sequence' = emitted.trigger_info[1].sequence_in_burst
                     /\ emitted.trigger_info[1].sequence_in_burst =
                            IF data_type.trigger_timestamp # current_trigger_timestamp
                            THEN 1
                            ELSE trigger_burst_sequence + 1
      ]_vars

\* The second accepted packet, a Trigger packet of a timestamp that was not
\* the current one, has been emitted as the first of its sequence
C32_Witness ==
    /\ nAccepted = 2
    /\ result.ok
    /\ result.value[1].trigger_info # <<>>
    /\ result.value[1].trigger_info[1].trigger_timestamp = 200
    /\ result.value[1].trigger_info[1].sequence_in_burst = 1
    /\ packet_sequence = 2

\* The i-th packet of the burst carries sequence_in_burst i and the burst's
\* trigger timestamp
NumberedInOrder(burst) ==
    \A i \in 1..Len(burst.data_packets) :
        LET info == burst.data_packets[i].trigger_info[1]
        IN  /\ info.sequence_in_burst = i
            /\ info.trigger_timestamp = burst.trigger_timestamp

\* C40: in the current burst and in every cached burst the packets are
\* numbered 1, 2, ... in order and carry the burst's trigger timestamp.
C40_BurstPacketNumbering ==
    /\ current_trigger_burst # <<>> => NumberedInOrder(current_trigger_burst[1])
    /\ \A id \in DOMAIN completed_trigger_bursts :
           NumberedInOrder(completed_trigger_bursts[id])

\* The same burst, closed or not: its id, its trigger, its start and its packets
SameBurst(a, b) ==
    /\ a.burst_id = b.burst_id
    /\ a.trigger_timestamp = b.trigger_timestamp
    /\ a.created_at = b.created_at
    /\ a.data_packets = b.data_packets
    /\ a.total_samples = b.total_samples

\* The step is complete_trigger_burst with a current burst: the burst closes
ClosesBurst ==
    /\ current_trigger_burst # <<>> /\ current_trigger_burst' = <<>>
    /\ lifecycle.phase = "open" /\ lifecycle'.phase = "closed"

LastPublished == burst_complete_ch'.pending[Len(burst_complete_ch'.pending)]

AllHandled == (\A c \in Commands : in_flight[c] = 0) /\ command_rx = <<>>

\* C33: the two mode copies agree: whatever the interleaving of concurrent
\* continuous_mode and trigger_mode requests, once the session has handled
\* every enqueued command the mode of the control surface (current_mode) is
\* the mode of the session (status.mode, and trigger_active with it)
C33_ModeCopiesAgree ==
    AllHandled =>
        /\ current_mode = status.mode
        /\ trigger_active = (current_mode = "trigger")

(***************************************************************************)
(*                  Further properties of the subscribers                  *)
(***************************************************************************)

\* Every frame enqueued to a subscriber so far, in order: those its writer
\* has taken and those still in its queue
Enqueued(client_id) == ws_sent[client_id] \o queue[client_id]

\* C36: welcome comes first: the first frame enqueued to a newly connected
\* subscriber's outbound queue is its welcome; no data, trigger_event or
\* trigger_burst_complete frame is enqueued to it before the welcome, under
\* any interleaving of the connection handler with the topic pumps
C36_WelcomeFirst ==
    \A c \in ClientIds :
        /\ conn[c] = "inserted" => queue[c] = <<>>
        /\ conn[c] = "open" /\ Enqueued(c) # <<>> => Enqueued(c)[1] = Welcome(c)

(***************************************************************************)
(*                    Further properties of the session                    *)
(***************************************************************************)

\* The step is a handle_command whose write to the open transport failed: the
\* command left the queue, the sequence number advanced, nothing was written
CommandWriteFails ==
    /\ connection = "open" /\ command_rx # <<>> /\ command_rx' = Tail(command_rx)
    /\ self_seq' # self_seq /\ written' = written

\* The step is a successful connect
Connects == connection = "none" /\ connection' = "open"

\* The session drops the transport and emits Disconnected
DropsTransport ==
    /\ connection' = "none"
    /\ ~status'.connected
    /\ events' = Append(events, DeviceEventOf("Disconnected"))

\* C35: transport failures lead to reconnect: after any transport failure
\* while connected, a read error or a failed command write, the session drops
\* the transport and emits Disconnected (and, the transport gone, run attempts
\* to connect again); on each successful connect it emits Connected and the
\* frame it writes first is the Ping (0x01)
C35_FailureLeadsToReconnect ==
    [][ /\ CommandWriteFails => DropsTransport
        /\ Connects =>
               /\ events' = Append(events, DeviceEventOf("Connected"))
               /\ written' \in {written, Append(written, build_frame(1, self_seq, <<>>))}
      ]_vars

(***************************************************************************)
(*                 Further properties of the burst requests                *)
(***************************************************************************)

\* The step is a burst request of the control surface
BurstRequestStep == nRequests' = nRequests + 1 /\ Len(response') = 2

\* C34: burst errors never corrupt the cache: preview, export/save and delete
\* of a burst_id that is not in the cache, and export with an unsupported
\* format, return an error and leave the completed cache and the current
\* burst unchanged; delete of a present id removes exactly that burst, and
\* the id is then absent, so that a second delete of it is not-found
C34_BurstErrorsKeepCache ==
    [][ /\ \A id \in CacheDeletes, format \in SaveFormats :
               id \notin DOMAIN completed_trigger_bursts \/ format \notin ExportFormats
                   => ~export_trigger_burst(id, format).ok
        /\ BurstRequestStep =>
               LET req    == response'[2]
                   absent == req.burst_id \notin DOMAIN completed_trigger_bursts
               IN  /\ current_trigger_burst' = current_trigger_burst
                   /\ absent \/ (req.op = "save" /\ req.format \notin ExportFormats) =>
                          /\ ~response'[1].success
                          /\ completed_trigger_bursts' = completed_trigger_bursts
                   /\ absent /\ req.op \in {"preview", "delete"} =>
                          response'[1] = ApiResponse(FALSE, "NOT_FOUND")
                   /\ req.op # "delete" =>
                          completed_trigger_bursts' = completed_trigger_bursts
                   /\ req.op = "delete" /\ ~absent =>
                          /\ response'[1].success
                          /\ completed_trigger_bursts' =
                                 [id \in DOMAIN completed_trigger_bursts \ {req.burst_id} |->
                                     completed_trigger_bursts[id]]
                   /\ req.op = "delete" =>
                          req.burst_id \notin DOMAIN completed_trigger_bursts'
      ]_vars

\* A delete answered not-found while a burst is being gathered, after an
\* earlier delete took a burst out of the full cache
C34_Witness ==
    /\ Len(response) = 2
    /\ response[2].op = "delete"
    /\ response[1] = ApiResponse(FALSE, "NOT_FOUND")
    /\ response[2].burst_id \notin DOMAIN completed_trigger_bursts
    /\ Cardinality(DOMAIN completed_trigger_bursts) = max_cached_bursts - 1
    /\ current_trigger_burst # <<>>

(***************************************************************************)
(*                 Further properties of the command channel               *)
(***************************************************************************)

\* The step handles a command
HandlesCommand == cmd_log'.handled # cmd_log.handled

\* C38: commands are handled in order and not lost: the session handles the
\* commands enqueued on the command channel in enqueue order, each exactly
\* once: the channel changes only by an enqueue at its end or by the session
\* handling its oldest command, and every command enqueued is either handled
\* or still in the channel; commands enqueued while the session is
\* disconnected stay in the channel, and are handled once it has connected
C38_CommandsInOrder ==
    [][ /\ HandlesCommand =>
               /\ connection = "open"
               /\ command_rx # <<>> /\ command_rx' = Tail(command_rx)
               /\ cmd_log'.handled = cmd_log.handled + 1
               /\ cmd_log'.enqueued = cmd_log.enqueued
               /\ handled_cmd'[1].cmd = Head(command_rx)
               /\ <<trigger_active', current_trigger', status'>> = LocalState(Head(command_rx))
        /\ command_rx' # command_rx /\ ~HandlesCommand =>
               /\ \E cmd \in Commands : command_rx' = Append(command_rx, cmd)
               /\ cmd_log'.enqueued = cmd_log.enqueued + 1
        /\ connection # "open" =>
               /\ Len(command_rx') >= Len(command_rx)
               /\ SubSeq(command_rx', 1, Len(command_rx)) = command_rx
        /\ cmd_log'.handled + Len(command_rx') = cmd_log'.enqueued
      ]_vars

\* A command enqueued while the session was disconnected, after a read error
\* had ended a connection, has been handled and written after the next connect
C38_Witness ==
    /\ cmd_log.after_offline
    /\ cmd_log.handled >= 1
    /\ connection = "open"
    /\ handled_cmd # <<>> /\ handled_cmd[1].result = "ok"
    /\ \E i \in 1..Len(events) : events[i].type = "Disconnected"

(***************************************************************************)
(*                   Further properties of the event stream                *)
(***************************************************************************)

\* The Connected and Disconnected events of a sequence of event types
ConnectionEvents(types) ==
    SelectSeq(types, LAMBDA t : t \in {"Connected", "Disconnected"})

\* The last Connected or Disconnected among the first n event types, or "none"
LastConnectionEvent(types, n) ==
    LET ce == ConnectionEvents(SubSeq(types, 1, n))
    IN  IF ce = <<>> THEN "none" ELSE ce[Len(ce)]

\* C37: on the session's event stream Connected and Disconnected strictly
\* alternate, beginning with Connected, and DataPacket, TriggerEvent and
\* BufferTransferComplete occur only between a Connected and the next
\* Disconnected; and the device-connected flag of the event router is never
\* true after it has processed a Disconnected and before it processes the
\* next Connected
C37_EventsAlternate ==
    /\ \A i \in 1..Len(ConnectionEvents(EventStream)) :
           ConnectionEvents(EventStream)[i] =
               IF i % 2 = 1 THEN "Connected" ELSE "Disconnected"
    /\ \A i \in 1..Len(EventStream) :
           EventStream[i] \in {"DataPacket", "TriggerEvent", "BufferTransferComplete"}
               => LastConnectionEvent(EventStream, i) = "Connected"
    /\ LastConnectionEvent(event_log, Len(event_log)) = "Disconnected" => ~device_status

\* The router has taken Connected, a DataPacket and then Disconnected
C37_Witness ==
    /\ LastConnectionEvent(event_log, Len(event_log)) = "Disconnected"
    /\ \E i \in 1..Len(event_log) : event_log[i] = "DataPacket"
    /\ ~device_status

====
